---------------------------- MODULE Spec2Model ----------------------------
(***************************************************************************)
(* Memory selection and learning subsystem of the SideChain cognitive      *)
(* layer: the rating update (trueskill.ts), the learning loop over the     *)
(* injected storage (signals.ts) and the selector pipeline (selector.ts,   *)
(* diversity.ts).                                                           *)
(*                                                                         *)
(* Numbers.  mu and sigma are IEEE doubles in the code.  Here a finite     *)
(* double x is the integer round(x * Scale) (fixed point, three decimal    *)
(* digits); Huge stands for a finite double whose square is not finite     *)
(* (|x| > 1.35e154, e.g. 1e200), and NaN for the IEEE not-a-number.        *)
(***************************************************************************)
EXTENDS Integers, Sequences, FiniteSets, TLC

VARIABLES
  rating,       \* SpecRating: the MemoryRating that updateRating is applied to
  prevRating,   \* SpecRating: the argument of the latest updateRating call
  lastReward,   \* SpecRating: the reward of the latest call (0 before the first)
  updates,      \* SpecRating: number of updateRating calls made so far
  storage,      \* signals.ts `storage`: the injected adapter, or Null
  settings,     \* the adapter's key/value store: key -> stored value
  heap,         \* the Map objects: of each pending call, and the one the host holds
  pc,           \* per caller: the suspension point of its pending call
  frame,        \* per caller: arguments and locals of its pending call
  clock,        \* Date.now()
  uuids,        \* number of crypto.randomUUID() values handed out
  calls,        \* number of calls started
  held,         \* history: the table the host was handed by loadRatings, as handed
  appended,     \* history: per profile, every interaction pushed, in order
  applied,      \* history: per profile and pair, reward entries of completed calls
  lastDone,     \* history: the latest completed call with the state it started in
  overwritten,  \* history: profiles whose ratings the host wrote with saveRatings
  raced,        \* history: two feedback calls on one profile both loaded before either saved
  memoryList,   \* SpecSelect: the MemoryChunk[] the host passes to selectMemories
  ratingsTable, \* SpecSelect: the Map of ratings the host passes to selectMemories
  selected,     \* SpecSelect: the selectMemories call made, with its result
  repeated,     \* SpecRepeat: a second selectMemories call with the arguments of the first
  mmr,          \* SpecMMR: a selectByMMR call: arguments, locals, and history
  sample,       \* SpecSample: a weightedSample call: arguments, locals, and history
  bm25Call,     \* SpecBM25: a calculateBM25 call: arguments and result
  tokenCall,    \* SpecTokenize: a tokenize call, and one on its joined tokens
  stack,        \* SpecContinuation: the executeAutonomousContinuation calls in progress
  continuation  \* SpecContinuation: the host's call: its arguments and its outcome

ratingVars == <<rating, prevRating, lastReward, updates>>

loopVars == <<storage, settings, heap, pc, frame, clock, uuids, calls, held,
              appended, applied, lastDone, overwritten, raced>>

divVars == <<mmr, sample>>

contVars == <<stack, continuation>>

callVars == <<bm25Call, tokenCall, contVars>>

selVars == <<memoryList, ratingsTable, selected, repeated, divVars, callVars>>

vars == <<ratingVars, loopVars, selVars>>

-----------------------------------------------------------------------------
(* Fixed-point arithmetic *)

Scale == 1000

\* a finite double whose square overflows to Infinity (sigma = 1e200)
Huge == 1073741824

\* IEEE NaN
NaN == -1073741824

IsSpecial(x) == x = Huge \/ x = NaN

Abs(x) == IF x < 0 THEN -x ELSE x

Max(a, b) == IF a >= b THEN a ELSE b

Min(a, b) == IF a <= b THEN a ELSE b

\* floor(a * b / d) for 0 <= a < d, b >= 0, without leaving 32-bit integers:
\* Horner's scheme over the decimal digits of b, carrying quotient and remainder.
RECURSIVE MulDivQR(_, _, _)
MulDivQR(a, b, d) ==
  IF b = 0 THEN <<0, 0>>
  ELSE LET hi == MulDivQR(a, b \div 10, d)
           t  == hi[2] * 10 + a * (b % 10)
       IN <<hi[1] * 10 + t \div d, t % d>>

MulDiv(a, b, d) == MulDivQR(a, b, d)[1]

\* floor(sqrt(n)) for 0 <= n < hi * hi, by bisection on [lo, hi)
RECURSIVE SqrtBetween(_, _, _)
SqrtBetween(n, lo, hi) ==
  IF hi - lo <= 1 THEN lo
  ELSE LET mid == (lo + hi) \div 2
       IN IF mid * mid <= n THEN SqrtBetween(n, mid, hi) ELSE SqrtBetween(n, lo, mid)

\* Math.sqrt of a fixed-point value x (in units of 1/Scale^2), in units of 1/Scale
Sqrt(x) == SqrtBetween(x, 0, Scale + 1)

-----------------------------------------------------------------------------
(* trueskill.ts *)

SIGMA_OBSERVATION == 1000

SIGMA_DRIFT == 10

SIGMA_MIN == 100

SIGMA_MAX == 2000

\* 1e-6, the floor of the posterior variance, in units of 1/Scale^2
VARIANCE_FLOOR == 1

Rewards == {-1, 0, 1}

initializeRating(memoryId, kernelId, now) ==
  [memoryId |-> memoryId, kernelId |-> kernelId,
   mu |-> 0, sigma |-> Scale, uses |-> 0, lastUpdatedAt |-> now]

\* updateRating that adds K * reward to mu (the `- currentRating.mu` dropped)
updateRatingAdditive(currentRating, reward, now) ==
  LET variance == currentRating.sigma * currentRating.sigma
      observationVariance == SIGMA_OBSERVATION * SIGMA_OBSERVATION
      denom == variance + observationVariance
      step == MulDiv(variance, Scale, denom)
      posterior == MulDiv(variance, observationVariance, denom)
      newSigma == Sqrt(Max(VARIANCE_FLOOR, posterior)) + SIGMA_DRIFT
  IN [currentRating EXCEPT !.mu = @ + reward * step,
                           !.sigma = Max(SIGMA_MIN, Min(SIGMA_MAX, newSigma)),
                           !.uses = @ + 1, !.lastUpdatedAt = now]

\* updateRating(currentRating, reward), with Date.now() = now.
\*   variance = sigma * sigma              (Infinity when sigma is Huge)
\*   K = variance / (variance + 1)         (Infinity / Infinity = NaN)
\*   newMu = mu + K * (reward - mu)
\*   newSigma = sqrt(max(1e-6, (1 - K) * variance)) + 0.01
\*   sigma = max(0.1, min(2.0, newSigma))  (Math.max / Math.min of NaN is NaN)
updateRating(currentRating, reward, now) ==
  IF IsSpecial(currentRating.sigma) \/ IsSpecial(currentRating.mu)
  THEN [currentRating EXCEPT !.mu = NaN, !.sigma = NaN,
                             !.uses = @ + 1, !.lastUpdatedAt = now]
  ELSE
    LET variance == currentRating.sigma * currentRating.sigma
        observationVariance == SIGMA_OBSERVATION * SIGMA_OBSERVATION
        denom == variance + observationVariance
        diff == reward * Scale - currentRating.mu
        step == MulDiv(variance, Abs(diff), denom)
        newMu == IF diff >= 0 THEN currentRating.mu + step
                              ELSE currentRating.mu - step
        posterior == MulDiv(variance, observationVariance, denom)
        newSigma == Sqrt(Max(VARIANCE_FLOOR, posterior)) + SIGMA_DRIFT
    IN [currentRating EXCEPT !.mu = newMu,
                             !.sigma = Max(SIGMA_MIN, Min(SIGMA_MAX, newSigma)),
                             !.uses = @ + 1, !.lastUpdatedAt = now]

-----------------------------------------------------------------------------
(* updateRating applied repeatedly to one rating *)

MaxUpdates == 3

\* starting sigma values: inside and outside [0.1, 2.0], negative, zero, and
\* a finite double whose square overflows
StartSigmas == {-3000, 0, 1, 50, 100, 717, 1000, 2000, 2500, 4000, Huge}

StartMus == {-1000, 0, 500}

StartUses == {0, 7}

UpdateRatingStep(reward) ==
  /\ updates < MaxUpdates
  /\ prevRating' = rating
  /\ rating' = updateRating(rating, reward, updates + 1)
  /\ lastReward' = reward
  /\ updates' = updates + 1
  /\ UNCHANGED <<loopVars, selVars>>

\* updates of a rating that starts as initializeRating returns it
MaxFreshUpdates == 6

UpdateFreshRating(reward) ==
  /\ updates < MaxFreshUpdates
  /\ prevRating' = rating
  /\ rating' = updateRating(rating, reward, updates + 1)
  /\ lastReward' = reward
  /\ updates' = updates + 1
  /\ UNCHANGED <<loopVars, selVars>>

-----------------------------------------------------------------------------
(* Values of the learning loop *)

Callers == {"a", "b"}

Profiles == {"p1", "p2"}

Kernels == {"k1", "k2"}

Memories == {"m1", "m2"}

Contexts == {"c1"}

Null == [kind |-> "null"]

\* what getSetting returns for a key that was never saved
Undefined == [kind |-> "undefined"]

\* JSON has no NaN: JSON.stringify writes null for it
JsonNull == -1073741823

\* utils.ts makeRatingKey: `${memoryId}::${kernelId}`
makeRatingKey(memoryId, kernelId) == memoryId \o "::" \o kernelId

RatingsKey(profileId) == "memory_ratings_" \o profileId

InteractionsKey(profileId) == "memory_interactions_" \o profileId

SettingKeys == {RatingsKey(p) : p \in Profiles} \cup {InteractionsKey(p) : p \in Profiles}

(* A Map<string, MemoryRating> is the sequence of its entries in insertion
   order; Map.set on a key already present keeps the entry's position. *)
EmptyMap == << >>

MapKeys(m) == {m[i].key : i \in 1..Len(m)}

MapHas(m, k) == \E i \in 1..Len(m) : m[i].key = k

MapGet(m, k) == m[CHOOSE i \in 1..Len(m) : m[i].key = k].value

MapSet(m, k, v) ==
  IF MapHas(m, k)
  THEN [m EXCEPT ![CHOOSE i \in 1..Len(m) : m[i].key = k] = [key |-> k, value |-> v]]
  ELSE Append(m, [key |-> k, value |-> v])

\* Array.from(map.values())
MapValues(m) == [i \in 1..Len(m) |-> m[i].value]

\* Array.prototype.slice(-n)
SliceLast(s, n) == IF Len(s) <= n THEN s ELSE SubSeq(s, Len(s) - n + 1, Len(s))

\* Array.prototype.slice(0, n)
SliceFirst(s, n) == IF Len(s) <= n THEN s ELSE SubSeq(s, 1, n)

(* JSON.stringify / JSON.parse.  A JSON text is modelled by the value it
   denotes: numbers that JSON cannot write (NaN) are written as null. *)
JsonNumber(x) == IF x = NaN THEN JsonNull ELSE x

RatingToJson(r) ==
  [memoryId |-> r.memoryId, kernelId |-> r.kernelId, mu |-> JsonNumber(r.mu),
   sigma |-> JsonNumber(r.sigma), uses |-> JsonNumber(r.uses),
   lastUpdatedAt |-> JsonNumber(r.lastUpdatedAt)]

InteractionToJson(x) ==
  [id |-> x.id, memoryId |-> x.memoryId, kernelId |-> x.kernelId,
   contextId |-> x.contextId, reward |-> JsonNumber(x.reward),
   timestamp |-> JsonNumber(x.timestamp)]

StringifyRatings(array) ==
  [kind |-> "json", value |-> [i \in 1..Len(array) |-> RatingToJson(array[i])]]

StringifyInteractions(array) ==
  [kind |-> "json", value |-> [i \in 1..Len(array) |-> InteractionToJson(array[i])]]

\* JSON.parse of a stored JSON text: the array it denotes
JsonParse(stored) == stored.value

(* Stored values that are not the JSON text of an array: a text JSON.parse
   rejects (such as "{{"), the text "null" and the text "{}". *)
CorruptText == [kind |-> "text"]

JsonNullText == [kind |-> "jsonNull"]

JsonObjectText == [kind |-> "jsonObject"]

CorruptValues == {CorruptText, JsonNullText, JsonObjectText}

\* the value JSON.parse gives for the text "{}"
EmptyObject == [kind |-> "object"]

\* an array as a value that may also be null or an object
ArrayOf(items) == [kind |-> "array", items |-> items]

-----------------------------------------------------------------------------
(* signals.ts: the learning loop *)

\* saveInteractions keeps the last 1000 interactions
MAX_INTERACTIONS == 1000

\* loadRatings that builds its Map anew for every stored rating: only the last
\* one is in the Map it returns
loadRatingsResultLast(stored) ==
  IF stored = Undefined THEN EmptyMap
  ELSE IF stored \in CorruptValues THEN EmptyMap
  ELSE LET ratings == JsonParse(stored)
           last == ratings[Len(ratings)]
       IN IF Len(ratings) = 0 THEN EmptyMap
          ELSE MapSet(EmptyMap, makeRatingKey(last.memoryId, last.kernelId), last)

\* loadRatings after getSetting has answered `stored`: the entries of a new Map
loadRatingsResult(stored) ==
  IF stored = Undefined THEN EmptyMap
  \* JSON.parse throws, or `for (const rating of ratings)` throws on a value
  \* that is not iterable: both inside the try, the catch returns new Map()
  ELSE IF stored \in CorruptValues THEN EmptyMap
  ELSE LET ratings == JsonParse(stored)
           Build[i \in 0..Len(ratings)] ==
             IF i = 0 THEN EmptyMap
             ELSE MapSet(Build[i - 1],
                         makeRatingKey(ratings[i].memoryId, ratings[i].kernelId),
                         ratings[i])
       IN Build[Len(ratings)]

\* loadInteractions after getSetting has answered `stored`: what it returns.
\* Only a throw of JSON.parse reaches the catch; any parsed value is returned.
loadInteractionsValue(stored) ==
  IF stored = Undefined THEN ArrayOf(<< >>)
  ELSE IF stored = CorruptText THEN ArrayOf(<< >>)
  ELSE IF stored = JsonNullText THEN Null
  ELSE IF stored = JsonObjectText THEN EmptyObject
  ELSE ArrayOf(JsonParse(stored))

\* the interactions loadInteractions returns, when it returns an array
loadInteractionsResult(stored) ==
  LET value == loadInteractionsValue(stored)
  IN IF value.kind = "array" THEN value.items ELSE << >>

\* saveRatings that stringifies the Map itself: JSON.stringify(new Map(..)) is
\* "{}", which loadRatings reads as no ratings
saveRatingsOfMap(ratings) == StringifyRatings(<< >>)

\* the value saveRatings hands to saveSetting
saveRatingsValue(ratings) == StringifyRatings(MapValues(ratings))

\* saveInteractions that keeps the first 1000 interactions instead
saveInteractionsOldest(interactions) ==
  StringifyInteractions(SliceFirst(interactions, MAX_INTERACTIONS))

\* the value saveInteractions hands to saveSetting
saveInteractionsValue(interactions) ==
  StringifyInteractions(SliceLast(interactions, MAX_INTERACTIONS))

\* an iteration that rates every reward from a fresh rating (ratings.get dropped)
feedbackIterationFresh(st, kernelId, contextId, entry, now) ==
  LET key == makeRatingKey(entry.memoryId, kernelId)
      newRating == updateRating(initializeRating(entry.memoryId, kernelId, now),
                                entry.reward, now)
  IN [ratings |-> MapSet(st.ratings, key, newRating),
      interactions |-> Append(st.interactions,
                              [id |-> st.uuids + 1, memoryId |-> entry.memoryId,
                               kernelId |-> kernelId, contextId |-> contextId,
                               reward |-> entry.reward, timestamp |-> now]),
      uuids |-> st.uuids + 1]

\* an iteration that only draws the uuid (ratings.set and interactions.push dropped)
feedbackIterationNoEffect(st, kernelId, contextId, entry, now) ==
  [st EXCEPT !.uuids = @ + 1]

\* one iteration of applyFeedback's loop over rewards; st holds the Map
\* `ratings`, the array `interactions` and the count of uuids handed out
feedbackIteration(st, kernelId, contextId, entry, now) ==
  LET key == makeRatingKey(entry.memoryId, kernelId)
      currentRating == IF MapHas(st.ratings, key) THEN MapGet(st.ratings, key)
                       ELSE initializeRating(entry.memoryId, kernelId, now)
      newRating == updateRating(currentRating, entry.reward, now)
  IN [ratings |-> MapSet(st.ratings, key, newRating),
      interactions |-> Append(st.interactions,
                              [id |-> st.uuids + 1, memoryId |-> entry.memoryId,
                               kernelId |-> kernelId, contextId |-> contextId,
                               reward |-> entry.reward, timestamp |-> now]),
      uuids |-> st.uuids + 1]

\* iterations lo..hi of the loop, in order (split in halves to bound the
\* evaluation depth on long reward lists)
RECURSIVE feedbackLoop(_, _, _, _, _, _, _)
feedbackLoop(st, kernelId, contextId, rewards, now, lo, hi) ==
  IF lo > hi THEN st
  ELSE IF lo = hi THEN feedbackIteration(st, kernelId, contextId, rewards[lo], now)
  ELSE LET mid == (lo + hi) \div 2
           left == feedbackLoop(st, kernelId, contextId, rewards, now, lo, mid)
       IN IF left.uuids > st.uuids
          THEN feedbackLoop(left, kernelId, contextId, rewards, now, mid + 1, hi)
          ELSE left

-----------------------------------------------------------------------------
(* Calls.  An async function runs from one suspension point (an awaited
   storage operation) to the next as one step; pc names the storage
   operation a pending call is waiting for. *)

\* calls started in a run of SpecSerial, of Spec and of SpecCap
MaxCalls == 3

MaxRaceCalls == 2

MaxCapCalls == 2

MaxCorruptCalls == 2

MaxUnavailableCalls == 1

MaxFailingCalls == 2

\* length of the long reward list: one more than the interaction cap
BulkLen == MAX_INTERACTIONS + 1

Entry(memoryId, reward) == [memoryId |-> memoryId, reward |-> reward]

BulkRewards == [i \in 1..BulkLen |-> Entry("m1", 1)]

Args(profileId, kernelId, rewards) ==
  [profileId |-> profileId, kernelId |-> kernelId, contextId |-> "c1", rewards |-> rewards]

\* arguments of applyFeedback: both profiles and kernels, an empty list, a
\* memory rewarded twice in one call
FeedbackArgs ==
  { Args("p1", "k1", <<Entry("m1", 0), Entry("m2", -1)>>),
    Args("p1", "k2", <<Entry("m1", 1), Entry("m1", -1)>>),
    Args("p2", "k1", <<Entry("m2", 1)>>),
    Args("p2", "k2", << >>) }

\* arguments of recordUsage; rewards holds the memoryIds
UsageArgs ==
  { Args("p1", "k1", <<"m2", "m1">>),
    Args("p1", "k2", <<"m1", "m1">>),
    Args("p2", "k2", << >>) }

\* arguments of the calls that race in Spec
RaceFeedbackArgs ==
  { Args("p1", "k1", <<Entry("m1", 1)>>),
    Args("p1", "k1", <<Entry("m2", -1)>>),
    Args("p2", "k1", <<Entry("m1", 0)>>) }

RaceUsageArgs == { Args("p1", "k1", <<"m1", "m2">>) }

\* arguments of the calls of SpecCap: short lists and one longer than the cap
CapFeedbackArgs ==
  { Args("p1", "k1", <<Entry("m2", 0), Entry("m1", -1)>>),
    Args("p1", "k1", BulkRewards) }

CapUsageArgs == { Args("p1", "k1", <<"m1", "m2">>) }

\* tables a host may hand to saveRatings: keyed by makeRatingKey of their ratings
HostRating(memoryId, kernelId, mu, sigma, uses, at) ==
  [key |-> makeRatingKey(memoryId, kernelId),
   value |-> [memoryId |-> memoryId, kernelId |-> kernelId, mu |-> mu,
              sigma |-> sigma, uses |-> uses, lastUpdatedAt |-> at]]

SaveArgs ==
  { Args("p1", "k1", EmptyMap),
    Args("p2", "k1", <<HostRating("m2", "k2", -250, 100, 4, 9),
                       HostRating("m1", "k2", 0, 2000, 0, 0)>>) }

\* arguments of the calls of SpecCorrupt, on the profile whose stored values
\* are corrupt; one feedback call has no rewards
CorruptFeedbackArgs ==
  { Args("p1", "k1", <<Entry("m1", 1), Entry("m2", -1)>>),
    Args("p1", "k2", << >>) }

CorruptUsageArgs == { Args("p1", "k1", <<"m2", "m2">>) }

CorruptSaveArgs == { Args("p1", "k1", <<HostRating("m1", "k1", 500, 717, 1, 5)>>) }

CapSaveArgs == { Args("p2", "k1", <<HostRating("m1", "k1", 500, 717, 1, 5)>>) }

RaceSaveArgs == { Args("p1", "k1", <<HostRating("m1", "k1", 500, 717, 1, 5)>>) }

NoPairs == [m \in Memories, k \in Kernels |-> 0]

Slots == Callers \cup {"snapshot"}

IdleFrame ==
  [op |-> "none", profileId |-> "p1", kernelId |-> "k1", contextId |-> "c1",
   rewards |-> << >>, ratings |-> "none", interactions |-> << >>,
   payload |-> Undefined, writer |-> FALSE, table |-> EmptyMap, readBack |-> FALSE,
   preLen |-> 0, preUses |-> NoPairs, startApplied |-> NoPairs,
   loaded |-> "array", preSettings |-> << >>]

NoCall ==
  [op |-> "none", outcome |-> "none", profileId |-> "p1", kernelId |-> "k1",
   contextId |-> "c1", rewards |-> << >>, table |-> EmptyMap, readBack |-> FALSE,
   preLen |-> 0, preUses |-> NoPairs, startApplied |-> NoPairs,
   result |-> [kind |-> "none"], preSettings |-> << >>]

\* the record of a completed call that returned `result` or threw
DoneWith(c, outcome, result) ==
  [op |-> frame[c].op, outcome |-> outcome, profileId |-> frame[c].profileId,
   kernelId |-> frame[c].kernelId, contextId |-> frame[c].contextId,
   rewards |-> frame[c].rewards, table |-> frame[c].table,
   readBack |-> frame[c].readBack, preLen |-> frame[c].preLen,
   preUses |-> frame[c].preUses, startApplied |-> frame[c].startApplied,
   result |-> result, preSettings |-> frame[c].preSettings]

Done(c, outcome) == DoneWith(c, outcome, [kind |-> "none"])

\* occurrences of memoryId in the rewards of a feedback call
CountIn(rewards, memoryId) ==
  Cardinality({i \in 1..Len(rewards) : rewards[i].memoryId = memoryId})

\* the ratings and interactions stored for a profile, as the load functions read them
StoredRatings(profileId) == loadRatingsResult(settings[RatingsKey(profileId)])

StoredInteractions(profileId) == loadInteractionsResult(settings[InteractionsKey(profileId)])

\* uses of every pair in a ratings Map, 0 for a pair without rating
UsesIn(map) ==
  [m \in Memories, k \in Kernels |->
     IF MapHas(map, makeRatingKey(m, k)) THEN MapGet(map, makeRatingKey(m, k)).uses ELSE 0]

WriterOn(profileId) ==
  \E c \in Callers : pc[c] # "idle" /\ frame[c].writer /\ frame[c].profileId = profileId

\* callers whose feedback call on the profile has loaded everything and saved nothing
LoadedUnsaved(profileId) ==
  {c \in Callers : pc[c] = "putRatings" /\ frame[c].profileId = profileId
                   /\ frame[c].op \in {"applyFeedback", "recordUsage"}}

\* loadRatings that hands every caller one cached Map, the one the host holds
cachedMap(c, op) == "snapshot"

\* loadRatings builds `new Map()`: an object of its own for every call.  The
\* host keeps the Map it is handed (slot "snapshot"); the Map inside
\* applyFeedback is local to that call (the caller's slot).
newMap(c, op) == IF op = "loadRatings" THEN "snapshot" ELSE c

\* setStorage(storageAdapter)
SetStorage ==
  /\ storage = Null
  /\ storage' = [kind |-> "adapter"]
  /\ UNCHANGED <<settings, heap, pc, frame, clock, uuids, calls, held,
                 appended, applied, lastDone, overwritten, raced>>
  /\ UNCHANGED <<ratingVars, selVars>>

\* a guard `if (!storage) return` in place of the throw: the call completes
CallReturnsQuietly(c, op) ==
  /\ storage = Null
  /\ lastDone' = [NoCall EXCEPT !.op = op, !.outcome = "returned"]
  /\ UNCHANGED <<storage, settings, heap, pc, frame, clock, uuids, calls, held,
                 appended, applied, overwritten, raced>>
  /\ UNCHANGED <<ratingVars, selVars>>

\* a call made while no adapter is injected: loadRatings / saveRatings throw
\* 'Storage not initialized' before any storage operation
CallRejected(c, op) ==
  /\ storage = Null
  /\ lastDone' = [NoCall EXCEPT !.op = op, !.outcome = "rejected"]
  /\ UNCHANGED <<storage, settings, heap, pc, frame, clock, uuids, calls, held,
                 appended, applied, overwritten, raced>>
  /\ UNCHANGED <<ratingVars, selVars>>

\* a call up to its first suspension at `await storage.getSetting` (loadRatings)
\* or `await storage.saveSetting` (saveRatings called by the host)
Begin(c, op, profileId, kernelId, contextId, rewards, table) ==
  /\ storage # Null
  /\ pc' = [pc EXCEPT ![c] = IF op = "saveRatings" THEN "putRatings"
                             ELSE IF op = "loadInteractions" THEN "getInteractions"
                             ELSE "getRatings"]
  /\ frame' = [frame EXCEPT ![c] =
       [IdleFrame EXCEPT !.op = op, !.profileId = profileId, !.kernelId = kernelId,
                         !.contextId = contextId, !.rewards = rewards,
                         !.writer = (op \notin {"loadRatings", "loadInteractions"}),
                         !.table = table, !.readBack = (op = "saveRatings"),
                         !.payload = IF op = "saveRatings" THEN saveRatingsValue(table)
                                     ELSE Undefined,
                         !.preLen = Len(StoredInteractions(profileId)),
                         !.preUses = UsesIn(StoredRatings(profileId)),
                         !.startApplied = applied[profileId],
                         !.preSettings = <<settings[RatingsKey(profileId)],
                                           settings[InteractionsKey(profileId)]>>]]
  /\ calls' = calls + 1
  /\ clock' = clock + 1
  /\ UNCHANGED <<storage, settings, heap, uuids, held, appended, applied, lastDone,
                 overwritten, raced>>
  /\ UNCHANGED <<ratingVars, selVars>>

\* sched.serial: the call starts only while no other call that writes the
\* profile is pending; sched.limit: the number of calls of a run
MayStart(c, profileId, sched) ==
  /\ pc[c] = "idle"
  /\ calls < sched.limit
  /\ sched.serial => ~WriterOn(profileId)

\* applyFeedback(profileId, kernelId, contextId, rewards)
CallApplyFeedback(c, profileId, kernelId, contextId, rewards, sched) ==
  /\ MayStart(c, profileId, sched)
  /\ \/ CallRejected(c, "applyFeedback")
     \/ Begin(c, "applyFeedback", profileId, kernelId, contextId, rewards, EmptyMap)

\* recordUsage that records a neutral reward
usageRewardsNeutral(memoryIds) == [i \in 1..Len(memoryIds) |-> Entry(memoryIds[i], 0)]

\* the rewards recordUsage builds from memoryIds
usageRewards(memoryIds) == [i \in 1..Len(memoryIds) |-> Entry(memoryIds[i], 1)]

\* recordUsage(profileId, kernelId, contextId, memoryIds)
CallRecordUsage(c, profileId, kernelId, contextId, memoryIds, sched) ==
  /\ MayStart(c, profileId, sched)
  /\ \/ CallRejected(c, "recordUsage")
     \/ Begin(c, "recordUsage", profileId, kernelId, contextId,
              usageRewards(memoryIds), EmptyMap)

\* loadRatings(profileId) called by the host
CallLoadRatings(c, profileId, sched) ==
  /\ MayStart(c, profileId, [sched EXCEPT !.serial = FALSE])
  /\ \/ CallRejected(c, "loadRatings")
     \/ Begin(c, "loadRatings", profileId, "k1", "c1", << >>, EmptyMap)

\* loadInteractions(profileId) called by the host
CallLoadInteractions(c, profileId, sched) ==
  /\ MayStart(c, profileId, [sched EXCEPT !.serial = FALSE])
  /\ \/ CallRejected(c, "loadInteractions")
     \/ Begin(c, "loadInteractions", profileId, "k1", "c1", << >>, EmptyMap)

\* saveRatings(profileId, ratings) called by the host, which afterwards reads
\* the table back with loadRatings
CallSaveRatings(c, profileId, table, sched) ==
  /\ MayStart(c, profileId, sched)
  /\ \/ CallRejected(c, "saveRatings")
     \/ Begin(c, "saveRatings", profileId, "k1", "c1", << >>, table)

\* loadRatings resumes with the answer of getSetting and builds a new Map.
\* Called by the host it returns the Map; inside applyFeedback, loadInteractions
\* is called next and suspends at its own getSetting.
GetRatings(c) ==
  /\ pc[c] = "getRatings"
  /\ LET map == StoredRatings(frame[c].profileId)
         ref == newMap(c, frame[c].op)
     IN /\ heap' = [heap EXCEPT ![ref] = map]
        /\ IF frame[c].op = "loadRatings"
           THEN /\ pc' = [pc EXCEPT ![c] = "idle"]
                /\ frame' = [frame EXCEPT ![c] = IdleFrame]
                /\ held' = [valid |-> TRUE, table |-> map]
                /\ lastDone' = Done(c, "returned")
           ELSE /\ pc' = [pc EXCEPT ![c] = "getInteractions"]
                /\ frame' = [frame EXCEPT ![c].ratings = ref]
                /\ UNCHANGED <<held, lastDone>>
  /\ UNCHANGED <<storage, settings, clock, uuids, calls, appended, applied,
                 overwritten, raced>>
  /\ UNCHANGED <<ratingVars, selVars>>

\* loadInteractions resumes with the answer of getSetting.  Called by the host
\* it returns.  Inside applyFeedback the loop over rewards runs on the Map that
\* was loaded and saveRatings is called, which suspends at saveSetting; when
\* the value loaded is not an array, `interactions.push` throws in the first
\* iteration (on null before its argument is evaluated, on an object after
\* crypto.randomUUID() was called) and applyFeedback rejects.
GetInteractions(c) ==
  /\ pc[c] = "getInteractions"
  /\ LET f == frame[c]
         value == loadInteractionsValue(settings[InteractionsKey(f.profileId)])
         loaded == StoredInteractions(f.profileId)
         st == feedbackLoop([ratings |-> heap[f.ratings], interactions |-> loaded,
                             uuids |-> uuids],
                            f.kernelId, f.contextId, f.rewards, clock,
                            1, Len(f.rewards))
     IN IF f.op = "loadInteractions"
        THEN /\ pc' = [pc EXCEPT ![c] = "idle"]
             /\ frame' = [frame EXCEPT ![c] = IdleFrame]
             /\ lastDone' = DoneWith(c, "returned", value)
             /\ UNCHANGED <<heap, uuids, appended, raced>>
        ELSE IF value.kind = "array" \/ Len(f.rewards) = 0
        THEN /\ heap' = [heap EXCEPT ![f.ratings] = st.ratings]
             /\ uuids' = st.uuids
             /\ frame' = [frame EXCEPT ![c].interactions = st.interactions,
                                       ![c].payload = saveRatingsValue(st.ratings),
                                       ![c].loaded = value.kind]
             /\ appended' = [appended EXCEPT ![f.profileId] =
                               @ \o SubSeq(st.interactions, Len(loaded) + 1,
                                           Len(st.interactions))]
             /\ raced' = (raced \/ LoadedUnsaved(f.profileId) # {})
             /\ pc' = [pc EXCEPT ![c] = "putRatings"]
             /\ UNCHANGED lastDone
        ELSE /\ pc' = [pc EXCEPT ![c] = "idle"]
             /\ frame' = [frame EXCEPT ![c] = IdleFrame]
             /\ heap' = [heap EXCEPT ![f.ratings] = EmptyMap]
             /\ uuids' = IF value = Null THEN uuids ELSE uuids + 1
             /\ lastDone' = Done(c, "threw")
             /\ UNCHANGED <<appended, raced>>
  /\ UNCHANGED <<storage, settings, clock, calls, held, applied, overwritten>>
  /\ UNCHANGED <<ratingVars, selVars>>

\* saveSetting stores the ratings.  saveRatings called by the host returns, and
\* the host reads the table back with loadRatings; inside applyFeedback,
\* saveInteractions is called next and suspends at its saveSetting, or throws
\* at `interactions.slice` when what was loaded is not an array.
PutRatings(c) ==
  /\ pc[c] = "putRatings"
  /\ settings' = [settings EXCEPT ![RatingsKey(frame[c].profileId)] = frame[c].payload]
  /\ IF frame[c].op = "saveRatings"
     THEN /\ pc' = [pc EXCEPT ![c] = "getRatings"]
          /\ frame' = [frame EXCEPT ![c].op = "loadRatings", ![c].payload = Undefined]
          /\ overwritten' = overwritten \cup {frame[c].profileId}
          /\ UNCHANGED <<heap, lastDone>>
     ELSE IF frame[c].loaded = "array"
     THEN /\ pc' = [pc EXCEPT ![c] = "putInteractions"]
          /\ frame' = [frame EXCEPT ![c].payload =
                         saveInteractionsValue(frame[c].interactions)]
          /\ UNCHANGED <<overwritten, heap, lastDone>>
     ELSE /\ pc' = [pc EXCEPT ![c] = "idle"]
          /\ frame' = [frame EXCEPT ![c] = IdleFrame]
          /\ heap' = [heap EXCEPT ![frame[c].ratings] = EmptyMap]
          /\ lastDone' = Done(c, "threw")
          /\ UNCHANGED overwritten
  /\ UNCHANGED <<storage, clock, uuids, calls, held, appended, applied, raced>>
  /\ UNCHANGED <<ratingVars, selVars>>

\* saveSetting stores the interactions and applyFeedback returns; its Map is dropped
PutInteractions(c) ==
  /\ pc[c] = "putInteractions"
  /\ settings' = [settings EXCEPT ![InteractionsKey(frame[c].profileId)] = frame[c].payload]
  /\ pc' = [pc EXCEPT ![c] = "idle"]
  /\ heap' = [heap EXCEPT ![frame[c].ratings] = EmptyMap]
  /\ applied' = [applied EXCEPT ![frame[c].profileId] =
                   [m \in Memories, k \in Kernels |->
                      @[m, k] + IF k = frame[c].kernelId
                               THEN CountIn(frame[c].rewards, m) ELSE 0]]
  /\ lastDone' = Done(c, "returned")
  /\ frame' = [frame EXCEPT ![c] = IdleFrame]
  /\ UNCHANGED <<storage, clock, uuids, calls, held, appended, overwritten, raced>>
  /\ UNCHANGED <<ratingVars, selVars>>

\* the storage operation a pending call is waiting for rejects (the adapter
\* stores nothing then): no function of the loop catches it, so the call
\* rejects at that `await`; its Map is dropped
StorageFails(c) ==
  /\ pc[c] # "idle"
  /\ pc' = [pc EXCEPT ![c] = "idle"]
  /\ frame' = [frame EXCEPT ![c] = IdleFrame]
  /\ heap' = [heap EXCEPT ![c] = EmptyMap]
  /\ lastDone' = DoneWith(c, "failed", [kind |-> "rejection", at |-> pc[c]])
  /\ UNCHANGED <<storage, settings, clock, uuids, calls, held, appended, applied,
                 overwritten, raced>>
  /\ UNCHANGED <<ratingVars, selVars>>

\* the calls a caller may start, with arguments from the given sets
Calls(c, feedback, usage, saves, loads, sched) ==
  \/ \E a \in feedback :
        CallApplyFeedback(c, a.profileId, a.kernelId, a.contextId, a.rewards, sched)
  \/ \E a \in usage :
        CallRecordUsage(c, a.profileId, a.kernelId, a.contextId, a.rewards, sched)
  \/ \E a \in saves : CallSaveRatings(c, a.profileId, a.rewards, sched)
  \/ \E profileId \in loads : CallLoadRatings(c, profileId, sched)
  \/ \E profileId \in loads : CallLoadInteractions(c, profileId, sched)

Resume(c) == GetRatings(c) \/ GetInteractions(c) \/ PutRatings(c) \/ PutInteractions(c)

LoopInit ==
  /\ storage = Null
  /\ settings = [k \in SettingKeys |-> Undefined]
  /\ heap = [s \in Slots |-> EmptyMap]
  /\ pc = [c \in Callers |-> "idle"]
  /\ frame = [c \in Callers |-> IdleFrame]
  /\ clock = 0
  /\ uuids = 0
  /\ calls = 0
  /\ held = [valid |-> FALSE, table |-> EmptyMap]
  /\ appended = [p \in Profiles |-> << >>]
  /\ applied = [p \in Profiles |-> NoPairs]
  /\ lastDone = NoCall
  /\ overwritten = {}
  /\ raced = FALSE

RatingIdle ==
  /\ rating = initializeRating("m1", "k1", 0)
  /\ prevRating = rating
  /\ lastReward = 0
  /\ updates = 0

-----------------------------------------------------------------------------
(* Text.  A string is the sequence of its characters. *)

UpperCase ==
  <<"A", "B", "C", "D", "E", "F", "G", "H", "I", "J", "K", "L", "M",
    "N", "O", "P", "Q", "R", "S", "T", "U", "V", "W", "X", "Y", "Z">>

LowerCase ==
  <<"a", "b", "c", "d", "e", "f", "g", "h", "i", "j", "k", "l", "m",
    "n", "o", "p", "q", "r", "s", "t", "u", "v", "w", "x", "y", "z">>

toLowerCaseChar(ch) ==
  IF \E j \in DOMAIN UpperCase : UpperCase[j] = ch
  THEN LowerCase[CHOOSE j \in DOMAIN UpperCase : UpperCase[j] = ch]
  ELSE ch

\* String.prototype.toLowerCase
toLowerCase(text) == << >> \o [i \in 1..Len(text) |-> toLowerCaseChar(text[i])]

\* Array.prototype.join
RECURSIVE join(_, _)
join(parts, separator) ==
  IF Len(parts) = 0 THEN << >>
  ELSE IF Len(parts) = 1 THEN parts[1]
  ELSE parts[1] \o separator \o join(Tail(parts), separator)

\* the characters matched by \s
Whitespace == {" ", "\t", "\n"}

\* the maximal runs of characters of text that are not whitespace, in order
words(text) ==
  LET starts == {i \in 1..Len(text) :
                   text[i] \notin Whitespace /\ (i = 1 \/ text[i - 1] \in Whitespace)}
      start(k) == CHOOSE i \in starts : Cardinality({j \in starts : j < i}) = k - 1
      end(i) == CHOOSE e \in i..Len(text) :
                  /\ \A j \in i..e : text[j] \notin Whitespace
                  /\ e = Len(text) \/ text[e + 1] \in Whitespace
  IN << >> \o [k \in 1..Cardinality(starts) |-> SubSeq(text, start(k), end(start(k)))]

\* text.split(/\s+/): the pieces between the maximal runs of whitespace, with
\* an empty piece before a leading and after a trailing run
split(text) ==
  IF Len(text) = 0 THEN << << >> >>
  ELSE (IF text[1] \in Whitespace THEN << << >> >> ELSE << >>)
       \o words(text)
       \o (IF text[Len(text)] \in Whitespace THEN << << >> >> ELSE << >>)

-----------------------------------------------------------------------------
(* tokenizer.ts *)

STOP_WORDS ==
  { <<"t", "h", "e">>, <<"a">>, <<"a", "n">>, <<"a", "n", "d">>, <<"o", "r">>,
    <<"b", "u", "t">>, <<"o", "f">>, <<"t", "o">>, <<"i", "n">>, <<"o", "n">>,
    <<"f", "o", "r">>, <<"w", "i", "t", "h">>, <<"i", "s">>, <<"i", "t">>,
    <<"a", "s">>, <<"a", "t">>, <<"b", "y">>, <<"b", "e">>, <<"a", "r", "e">>,
    <<"w", "a", "s">>, <<"w", "e", "r", "e">>, <<"t", "h", "i", "s">>,
    <<"t", "h", "a", "t">>, <<"f", "r", "o", "m">>, <<"w", "e">>,
    <<"y", "o", "u">>, <<"t", "h", "e", "y">>, <<"i">>, <<"m", "e">>,
    <<"m", "y">>, <<"y", "o", "u", "r">> }

\* the character class of the replace() in tokenize
\* the grave accent, U+0060; a string constant here cannot hold the character
\* itself
GraveAccent == "U+0060"

PUNCTUATION ==
  { GraveAccent, "~", "!", "@", "#", "$", "%", "^", "&", "*", "(", ")", "-", "_", "=",
    "+", "[", "]", "{", "}", ";", ":", "'", "\"", ",", ".", "<", ">", "/", "?",
    "\\", "|" }

replacePunctuation(text) ==
  << >> \o [i \in 1..Len(text) |-> IF text[i] \in PUNCTUATION THEN " " ELSE text[i]]

\* a tokenizer that filters the pieces before it lower-cases them
tokenizeFilterFirst(text) ==
  LET keep(t) == t # << >> /\ t \notin STOP_WORDS /\ Len(t) >= 2
      kept == SelectSeq(split(replacePunctuation(text)), keep)
  IN << >> \o [i \in 1..Len(kept) |-> toLowerCase(kept[i])]

tokenize(text) ==
  LET keep(t) == t # << >> /\ t \notin STOP_WORDS /\ Len(t) >= 2
  IN SelectSeq(split(replacePunctuation(toLowerCase(text))), keep)

shingles(tokens, n) ==
  {join(SubSeq(tokens, i, i + n - 1), <<" ">>) : i \in 1..(Len(tokens) - n + 1)}

SHINGLE_SIZE == 3

jaccardSimilarity(textA, textB) ==
  LET shinglesA == shingles(tokenize(textA), SHINGLE_SIZE)
      shinglesB == shingles(tokenize(textB), SHINGLE_SIZE)
      intersection == Cardinality(shinglesA \cap shinglesB)
      union == Cardinality(shinglesA) + Cardinality(shinglesB) - intersection
  IN IF union > 0 THEN (intersection * Scale) \div union ELSE 0

-----------------------------------------------------------------------------
(* Math.log and Math.exp in fixed point *)

\* Math.log(2)
LN2 == 693

\* Math.exp(-1)
EXP_MINUS_1 == 368

\* Math.log(x / Scale) * Scale for x > 0: halve or double x into [1, 2), then
\* ln m = 2 * atanh((m - 1) / (m + 1)) by its series
RECURSIVE Ln(_)
Ln(x) ==
  IF x >= 2 * Scale THEN LN2 + Ln(x \div 2)
  ELSE IF x < Scale THEN Ln(2 * x) - LN2
  ELSE LET z  == ((x - Scale) * Scale) \div (x + Scale)
           z2 == (z * z) \div Scale
           z3 == (z * z2) \div Scale
           z5 == (z3 * z2) \div Scale
       IN 2 * (z + z3 \div 3 + z5 \div 5)

\* Math.exp(-x / Scale) * Scale for x >= 0
RECURSIVE ExpMinus(_)
ExpMinus(x) ==
  IF x >= 20 * Scale THEN 0
  ELSE IF x >= Scale THEN (EXP_MINUS_1 * ExpMinus(x - Scale)) \div Scale
  ELSE LET x2 == (x * x) \div Scale
           x3 == (x2 * x) \div Scale
           x4 == (x3 * x) \div Scale
       IN Scale - x + x2 \div 2 - x3 \div 6 + x4 \div 24

-----------------------------------------------------------------------------
(* bm25.ts *)

\* `const x = value; ...rest`: the value is computed once, before the
\* statements that use it
Const(value, Rest(_)) == CHOOSE out \in {Rest(x) : x \in {value}} : TRUE

BM25_K1 == 1200

BM25_B == 750

\* the first occurrences of the items of a sequence, in order: [...new Set(s)]
RECURSIVE uniqueFrom(_, _)
uniqueFrom(seen, s) ==
  IF Len(s) = 0 THEN seen
  ELSE IF \E i \in 1..Len(seen) : seen[i] = Head(s) THEN uniqueFrom(seen, Tail(s))
  ELSE uniqueFrom(Append(seen, Head(s)), Tail(s))

unique(s) == uniqueFrom(<< >>, s)

\* the inner loop of buildDocumentFrequencies: df.set(token, (df.get(token) || 0) + 1)
RECURSIVE countTokens(_, _)
countTokens(df, tokens) ==
  IF Len(tokens) = 0 THEN df
  ELSE LET token == Head(tokens)
           count == IF MapHas(df, token) THEN MapGet(df, token) ELSE 0
       IN Const(MapSet(df, token, count + 1),
                LAMBDA counted : countTokens(counted, Tail(tokens)))

RECURSIVE countMemories(_, _)
countMemories(df, allMemories) ==
  IF Len(allMemories) = 0 THEN df
  ELSE Const(countTokens(df, unique(tokenize(Head(allMemories).content))),
             LAMBDA counted : countMemories(counted, Tail(allMemories)))

\* the Map token -> number of memories whose content holds the token
buildDocumentFrequencies(allMemories) == countMemories(EmptyMap, allMemories)

\* the classic idf, Math.log((N - df + 0.5) / (df + 0.5)), without the + 1
inverseDocumentFrequencyClassic(totalDocuments, df) ==
  Ln(((2 * (totalDocuments - df) + 1) * Scale) \div (2 * df + 1))

\* Math.log((totalDocuments - df + 0.5) / (df + 0.5) + 1)
inverseDocumentFrequency(totalDocuments, df) ==
  Ln(((2 * (totalDocuments - df) + 1) * Scale) \div (2 * df + 1) + Scale)

RECURSIVE bm25Sum(_, _, _, _, _, _)
bm25Sum(terms, documentTokens, documentFrequencies, totalDocuments, avgDocLength, n) ==
  IF n = 0 THEN 0
  ELSE
    LET rest == bm25Sum(terms, documentTokens, documentFrequencies,
                        totalDocuments, avgDocLength, n - 1)
        term == terms[n]
        termFreq == Cardinality({i \in 1..Len(documentTokens) : documentTokens[i] = term})
        df == IF MapHas(documentFrequencies, term)
              THEN MapGet(documentFrequencies, term) ELSE 0
        idf == inverseDocumentFrequency(totalDocuments, df)
        numerator == termFreq * (BM25_K1 + Scale)
        docLength == Len(documentTokens) * Scale
        lengthRatio == (docLength * Scale) \div Max(Scale, avgDocLength)
        denominator == termFreq * Scale
                       + (BM25_K1 * (Scale - BM25_B + (BM25_B * lengthRatio) \div Scale))
                           \div Scale
    IN IF termFreq = 0 \/ df = 0 THEN rest
       ELSE rest + (idf * ((numerator * Scale) \div Max(1, denominator))) \div Scale

calculateBM25(queryTokens, documentTokens, documentFrequencies, totalDocuments, avgDocLength) ==
  IF Len(queryTokens) = 0 \/ Len(documentTokens) = 0 THEN 0
  ELSE LET uniqueQuery == unique(queryTokens)
       IN bm25Sum(uniqueQuery, documentTokens, documentFrequencies,
                  totalDocuments, avgDocLength, Len(uniqueQuery))

-----------------------------------------------------------------------------
(* signals.ts: the signals *)

\* Math.max(0, Math.min(1, (importance - 1) / 9)), importance an integer here
normalizeImportance(importance) ==
  Max(0, Min(Scale, ((importance - 1) * Scale) \div 9))

calculateTagRelevance(memoryTags, kernelKeywords) ==
  IF Len(memoryTags) = 0 \/ Len(kernelKeywords) = 0 THEN 0
  ELSE LET memoryTagSet == {toLowerCase(memoryTags[i]) : i \in 1..Len(memoryTags)}
           matches == Cardinality({i \in 1..Len(kernelKeywords) :
                                     toLowerCase(kernelKeywords[i]) \in memoryTagSet})
       IN (matches * Scale) \div Len(kernelKeywords)

HALF_LIFE_DAYS == 14

\* timestamps and Date.now() are counted in days here
calculateRecencyBoost(timestamp, now) ==
  LET age == Max(0, now - timestamp)
  IN ExpMinus((age * Scale) \div HALF_LIFE_DAYS)

\* 1.25, the spin of a memory whose tags align with the kernel
SPIN_ALIGNED == 1250

calculateCentrality(memory, kernelKeywords) ==
  LET degree == Len(memory.associations)
      keywordSet == {toLowerCase(kernelKeywords[i]) : i \in 1..Len(kernelKeywords)}
      hasAlignment == \E i \in 1..Len(memory.tags) :
                         toLowerCase(memory.tags[i]) \in keywordSet
      spin == IF hasAlignment THEN SPIN_ALIGNED ELSE Scale
  IN Min(Scale, (degree * spin) \div 10)

-----------------------------------------------------------------------------
(* diversity.ts *)

\* -Infinity
NegInfinity == -1073741822

\* [...candidates].sort((a, b) => b.score - a.score): a stable sort of a copy
RECURSIVE sortedInsert(_, _, _)
sortedInsert(sorted, item, i) ==
  IF i <= Len(sorted) /\ sorted[i].score >= item.score
  THEN sortedInsert(sorted, item, i + 1)
  ELSE SubSeq(sorted, 1, i - 1) \o <<item>> \o SubSeq(sorted, i, Len(sorted))

RECURSIVE sortFrom(_, _)
sortFrom(sorted, items) ==
  IF Len(items) = 0 THEN sorted
  ELSE sortFrom(sortedInsert(sorted, Head(items), 1), Tail(items))

sortByScoreDesc(items) == sortFrom(<< >>, items)

\* splice(idx, 1) on a list, idx counted from 1
removeAt(list, idx) == SubSeq(list, 1, idx - 1) \o SubSeq(list, idx + 1, Len(list))

\* an MMR score with the default lambda = 0.7 whatever lambda is passed
mmrScoreOfDefault(candidate, chosen, lambda) ==
  LET similarities == {jaccardSimilarity(candidate.content, chosen[j].content) :
                         j \in 1..Len(chosen)}
      maxSimilarity == IF Len(chosen) > 0
                       THEN CHOOSE s \in similarities : \A t \in similarities : t <= s
                       ELSE 0
  IN 700 * candidate.score - (Scale - 700) * maxSimilarity

\* an MMR score that adds the similarity term instead of subtracting it
mmrScoreOfPlus(candidate, chosen, lambda) ==
  LET similarities == {jaccardSimilarity(candidate.content, chosen[j].content) :
                         j \in 1..Len(chosen)}
      maxSimilarity == IF Len(chosen) > 0
                       THEN CHOOSE s \in similarities : \A t \in similarities : t <= s
                       ELSE 0
  IN lambda * candidate.score + (Scale - lambda) * maxSimilarity

\* lambda * candidate.score - (1 - lambda) * maxSimilarity, in units of 1/Scale^2
mmrScoreOf(candidate, chosen, lambda) ==
  LET similarities == {jaccardSimilarity(candidate.content, chosen[j].content) :
                         j \in 1..Len(chosen)}
      maxSimilarity == IF Len(chosen) > 0
                       THEN CHOOSE s \in similarities : \A t \in similarities : t <= s
                       ELSE 0
  IN lambda * candidate.score - (Scale - lambda) * maxSimilarity

\* the inner loop with `mmrScore >= bestScore`: the last of the best wins
RECURSIVE mmrBestLast(_, _, _, _, _)
mmrBestLast(remaining, chosen, lambda, i, best) ==
  IF i > Len(remaining) THEN best
  ELSE LET mmrScore == mmrScoreOf(remaining[i], chosen, lambda)
       IN mmrBestLast(remaining, chosen, lambda, i + 1,
                      IF mmrScore >= best.bestScore
                      THEN [bestIdx |-> i, bestScore |-> mmrScore]
                      ELSE best)

\* the inner for loop of selectByMMR over remaining[i..], carrying bestIdx and bestScore
RECURSIVE mmrBest(_, _, _, _, _)
mmrBest(remaining, chosen, lambda, i, best) ==
  IF i > Len(remaining) THEN best
  ELSE LET mmrScore == mmrScoreOf(remaining[i], chosen, lambda)
       IN mmrBest(remaining, chosen, lambda, i + 1,
                  IF mmrScore > best.bestScore
                  THEN [bestIdx |-> i, bestScore |-> mmrScore]
                  ELSE best)

\* the condition of the while loop of selectByMMR
mmrContinues(chosen, remaining, limit) ==
  Len(remaining) > 0 /\ Len(chosen) * Scale < limit

\* an iteration that, when nothing is selected yet, copies the best candidate
\* to the output and leaves it among the remaining ones
mmrStepKeeping(chosen, remaining, lambda) ==
  Const(mmrBest(remaining, chosen, lambda, 1,
                [bestIdx |-> 1, bestScore |-> NegInfinity]),
        LAMBDA best :
          [selected |-> Append(chosen, remaining[best.bestIdx]),
           remaining |-> IF Len(chosen) = 0 THEN remaining
                         ELSE removeAt(remaining, best.bestIdx),
           bestIdx |-> best.bestIdx])

\* one iteration of the while loop: selected.push(remaining.splice(bestIdx, 1)[0])
mmrStep(chosen, remaining, lambda) ==
  Const(mmrBest(remaining, chosen, lambda, 1,
                [bestIdx |-> 1, bestScore |-> NegInfinity]),
        LAMBDA best :
          [selected |-> Append(chosen, remaining[best.bestIdx]),
           remaining |-> removeAt(remaining, best.bestIdx),
           bestIdx |-> best.bestIdx])

\* the while loop of selectByMMR
RECURSIVE mmrLoop(_, _, _, _)
mmrLoop(chosen, remaining, lambda, limit) ==
  IF ~mmrContinues(chosen, remaining, limit) THEN chosen
  ELSE Const(mmrStep(chosen, remaining, lambda),
             LAMBDA next : mmrLoop(next.selected, next.remaining, lambda, limit))

selectByMMR(candidates, lambda, limit) ==
  mmrLoop(<< >>, sortByScoreDesc(candidates), lambda, limit)

RECURSIVE totalOf(_)
totalOf(w) == IF Len(w) = 0 THEN 0 ELSE Max(0, Head(w)) + totalOf(Tail(w))

\* the walk `while (idx < w.length && random > Math.max(0, w[idx]))`, idx from
\* 1; random = Math.random() * totalWeight is kept exact, in units of 1/Scale
\* of a weight
RECURSIVE walk(_, _, _)
walk(w, random, idx) ==
  IF idx <= Len(w) /\ random > Scale * Max(0, w[idx])
  THEN walk(w, random - Scale * Max(0, w[idx]), idx + 1)
  ELSE idx

\* an iteration without the branch for totalWeight === 0
drawIndexWalkOnly(pool, w, u) ==
  LET walked == walk(w, u * totalOf(w), 1)
  IN IF walked > Len(pool) THEN Len(pool) ELSE walked

\* the index drawn by one iteration of the while loop of weightedSample; u is
\* its Math.random()
drawIndex(pool, w, u) ==
  LET totalWeight == totalOf(w)
      walked == walk(w, u * totalWeight, 1)
  IN IF totalWeight = 0 THEN (u * Len(pool)) \div Scale + 1
     ELSE IF walked > Len(pool) THEN Len(pool)
     ELSE walked

\* the condition of the while loop of weightedSample
sampleContinues(result, pool, k) == Len(result) * Scale < k /\ Len(pool) > 0

\* an iteration that leaves the first item drawn in the pool
sampleStepKeeping(result, pool, w, u) ==
  Const(drawIndex(pool, w, u),
        LAMBDA idx :
          [result |-> Append(result, pool[idx]),
           pool |-> IF Len(result) = 0 THEN pool ELSE removeAt(pool, idx),
           w |-> IF Len(result) = 0 THEN w ELSE removeAt(w, idx),
           idx |-> idx])

\* one iteration of the while loop: result.push(pool.splice(idx, 1)[0]);
\* w.splice(idx, 1)
sampleStep(result, pool, w, u) ==
  Const(drawIndex(pool, w, u),
        LAMBDA idx :
          [result |-> Append(result, pool[idx]),
           pool |-> removeAt(pool, idx),
           w |-> removeAt(w, idx),
           idx |-> idx])

RECURSIVE sampleLoop(_, _, _, _, _)
sampleLoop(result, pool, w, k, randoms) ==
  IF ~sampleContinues(result, pool, k) THEN result
  ELSE Const(sampleStep(result, pool, w, randoms[Len(result) + 1]),
             LAMBDA next : sampleLoop(next.result, next.pool, next.w, k, randoms))

weightedSampleAll(items, weights, k, randoms) == items

\* weightedSample(items, weights, k); randoms are the values of Math.random()
weightedSample(items, weights, k, randoms) == sampleLoop(<< >>, items, weights, k, randoms)

-----------------------------------------------------------------------------
(* trueskill.ts: thompsonSample; selector.ts *)

\* mu + sigma * z, z the Box-Muller value of the two Math.random() draws
thompsonSample(mu, sigma, z) == mu + (sigma * z) \div Scale

WEIGHTS ==
  [IMPORTANCE |-> 100, TAG_RELEVANCE |-> 250, LEXICAL |-> 300,
   RECENCY |-> 100, CENTRALITY |-> 100, THOMPSON |-> 150]

MMR_LAMBDA == 700

OVERSAMPLE_FACTOR == 3

calculateUtility(memory, kernel, bm25Score, thompsonScore, now) ==
  LET importance == normalizeImportance(memory.importance)
      tagRelevance == calculateTagRelevance(memory.tags, kernel.keywords)
      recency == calculateRecencyBoost(memory.timestamp, now)
      centrality == calculateCentrality(memory, kernel.keywords)
      lexical == IF bm25Score > 0 THEN Ln(Scale + bm25Score) \div 5 ELSE 0
      total == ( WEIGHTS.IMPORTANCE * importance
               + WEIGHTS.TAG_RELEVANCE * tagRelevance
               + WEIGHTS.LEXICAL * lexical
               + WEIGHTS.RECENCY * recency
               + WEIGHTS.CENTRALITY * centrality
               + WEIGHTS.THOMPSON * Max(0, Min(Scale, (thompsonScore + Scale) \div 2)) )
               \div Scale
  IN [total |-> total,
      signals |-> [importance |-> importance, tagRelevance |-> tagRelevance,
                   lexicalScore |-> lexical, recency |-> recency,
                   centrality |-> centrality, thompson |-> thompsonScore]]

\* the destructuring defaults of `options`
optionsOf(options) ==
  [queryTerms |-> IF "queryTerms" \in options.given THEN options.queryTerms ELSE << >>,
   bypassTagFilter |-> IF "bypassTagFilter" \in options.given
                       THEN options.bypassTagFilter ELSE FALSE]

shouldFilterNever(kernel, bypassTagFilter) == FALSE

shouldFilterByTags(kernel, bypassTagFilter) ==
  Len(kernel.keywords) > 0 /\ ~bypassTagFilter

\* m.tags.some(t => keywordSet.has(t.toLowerCase()))
hasKeywordTag(memory, kernel) ==
  LET keywordSet == {toLowerCase(kernel.keywords[i]) : i \in 1..Len(kernel.keywords)}
  IN \E i \in 1..Len(memory.tags) : toLowerCase(memory.tags[i]) \in keywordSet

\* the positions in `memories` of the candidates, in order
RECURSIVE filterPositions(_, _, _)
filterPositions(memories, kernel, i) ==
  IF i > Len(memories) THEN << >>
  ELSE (IF hasKeywordTag(memories[i], kernel) THEN <<i>> ELSE << >>)
       \o filterPositions(memories, kernel, i + 1)

RECURSIVE allPositions(_, _)
allPositions(memories, i) ==
  IF i > Len(memories) THEN << >> ELSE <<i>> \o allPositions(memories, i + 1)

candidatePositions(memories, kernel, bypassTagFilter) ==
  IF shouldFilterByTags(kernel, bypassTagFilter)
  THEN filterPositions(memories, kernel, 1)
  ELSE allPositions(memories, 1)

queryTokensOf(kernel, queryTerms) ==
  LET queryParts == <<kernel.name, kernel.prompt>>
                    \o (IF Len(kernel.keywords) > 0
                        THEN <<join(kernel.keywords, <<" ">>)>> ELSE << >>)
                    \o (IF Len(queryTerms) > 0
                        THEN <<join(queryTerms, <<" ">>)>> ELSE << >>)
  IN tokenize(join(queryParts, <<" ">>))

RECURSIVE docLengthSum(_)
docLengthSum(candidates) ==
  IF Len(candidates) = 0 THEN 0
  ELSE Len(tokenize(Head(candidates).content)) + docLengthSum(Tail(candidates))

\* a rating lookup that writes the rating back with half its sigma, as if a
\* selection used up exploration
ratingOrExplored(ratings, memoryId, kernelId, now) ==
  LET ratingKey == makeRatingKey(memoryId, kernelId)
      found == IF MapHas(ratings, ratingKey) THEN MapGet(ratings, ratingKey)
               ELSE initializeRating(memoryId, kernelId, now)
  IN [rating |-> found,
      ratings |-> MapSet(ratings, ratingKey, [found EXCEPT !.sigma = @ \div 2])]

ratingOrInserted(ratings, memoryId, kernelId, now) ==
  LET ratingKey == makeRatingKey(memoryId, kernelId)
      fresh == initializeRating(memoryId, kernelId, now)
  IN IF MapHas(ratings, ratingKey)
     THEN [rating |-> MapGet(ratings, ratingKey), ratings |-> ratings]
     ELSE [rating |-> fresh, ratings |-> MapSet(ratings, ratingKey, fresh)]

\* ratings.get(ratingKey) || initializeRating(memory.id, kernel.id): the rating
\* scored with, and the table afterwards
ratingOrInitial(ratings, memoryId, kernelId, now) ==
  LET ratingKey == makeRatingKey(memoryId, kernelId)
  IN IF MapHas(ratings, ratingKey)
     THEN [rating |-> MapGet(ratings, ratingKey), ratings |-> ratings]
     ELSE [rating |-> initializeRating(memoryId, kernelId, now), ratings |-> ratings]

\* one iteration of the scoring loop: candidate n, after the iterations `before`;
\* an item's `memory` is a reference, modelled by the candidate's position
scoreCandidate(before, memory, kernel, stats, draws, n) ==
  LET bm25Score == calculateBM25(stats.queryTokens, tokenize(memory.content),
                                 stats.df, stats.totalDocs, stats.avgDocLength)
      found == ratingOrInitial(before.ratings, memory.id, kernel.id, draws.now)
      thompsonScore == thompsonSample(found.rating.mu, found.rating.sigma,
                                      draws.normals[n])
      utility == calculateUtility(memory, kernel, bm25Score, thompsonScore, draws.now)
  IN [scored |-> Append(before.scored,
                        [id |-> memory.id, content |-> memory.content,
                         score |-> utility.total, tags |-> memory.tags,
                         memory |-> n, signals |-> utility.signals]),
      ratings |-> found.ratings,
      rated |-> Append(before.rated, found.rating)]

RECURSIVE scoreCandidates(_, _, _, _, _, _)
scoreCandidates(candidates, kernel, ratings, stats, draws, n) ==
  IF n = 0 THEN [scored |-> << >>, ratings |-> ratings, rated |-> << >>]
  ELSE scoreCandidate(scoreCandidates(candidates, kernel, ratings, stats, draws, n - 1),
                      candidates[n], kernel, stats, draws, n)

-----------------------------------------------------------------------------
(* Inputs of selectMemories *)

\* "Red fox runs far."
TextRedFox ==
  <<"R", "e", "d", " ", "f", "o", "x", " ", "r", "u", "n", "s", " ", "f",
    "a", "r", ".">>

\* "red fox runs home"
TextRedFoxHome ==
  <<"r", "e", "d", " ", "f", "o", "x", " ", "r", "u", "n", "s", " ", "h",
    "o", "m", "e">>

\* "a GPU, hot"
TextGpu ==
  <<"a", " ", "G", "P", "U", ",", " ", "h", "o", "t">>

\* " It is "
TextQuiet ==
  <<" ", "I", "t", " ", "i", "s", " ">>

\* "AI"
TagAI ==
  <<"A", "I">>

\* "ai"
TagAi ==
  <<"a", "i">>

\* "ml"
TagMl ==
  <<"m", "l">>

\* "Cats"
TagCats ==
  <<"C", "a", "t", "s">>

\* "Fox"
WordFox ==
  <<"F", "o", "x">>

\* "gpu"
WordGpu ==
  <<"g", "p", "u">>

\* "zz"
WordZz ==
  <<"z", "z">>

\* "DOGS"
WordDogs ==
  <<"D", "O", "G", "S">>

\* "fox runs"
PromptFoxRuns ==
  <<"f", "o", "x", " ", "r", "u", "n", "s">>

\* Date.now() of a selection, in days
Today == 20

MemoryChunk(id, content, tags, importance, timestamp, associations) ==
  [id |-> id, content |-> content, tags |-> tags, importance |-> importance,
   timestamp |-> timestamp, associations |-> associations]

MemRedFox == MemoryChunk("m1", TextRedFox, <<TagAI>>, 8, 20, <<"m2", "m3">>)

MemRedFoxHome == MemoryChunk("m2", TextRedFoxHome, <<TagCats, TagAi, TagMl>>, 3, 6, << >>)

MemGpu == MemoryChunk("m3", TextGpu, <<TagCats>>, 10, 25, <<"m1">>)

MemQuiet == MemoryChunk("m4", TextQuiet, << >>, 1, 20, << >>)

MemoryLists ==
  { << >>,
    <<MemGpu, MemQuiet>>,
    <<MemRedFox, MemGpu, MemRedFoxHome>>,
    <<MemRedFox, MemRedFoxHome, MemRedFox, MemRedFoxHome>>,
    <<MemQuiet, MemRedFox, MemGpu, MemRedFoxHome, MemRedFox>> }

PromptKernel(id, name, prompt, keywords) ==
  [id |-> id, name |-> name, prompt |-> prompt, keywords |-> keywords]

PromptKernels ==
  { PromptKernel("k1", WordFox, PromptFoxRuns, <<TagAi>>),
    PromptKernel("k1", WordGpu, << >>, <<WordDogs, TagAI>>),
    PromptKernel("k2", WordFox, TextGpu, <<WordZz>>),
    PromptKernel("k1", << >>, << >>, << >>) }

SelectionOptions ==
  { [given |-> {}, queryTerms |-> << >>, bypassTagFilter |-> FALSE],
    [given |-> {"bypassTagFilter"}, queryTerms |-> << >>, bypassTagFilter |-> TRUE],
    [given |-> {"bypassTagFilter", "queryTerms"}, queryTerms |-> <<WordGpu>>,
     bypassTagFilter |-> FALSE] }

\* limit, a number: 0, 0.5, 1, 2 and the default 20
Limits == {0, 500, 1000, 2000, 20000}

RatingTables ==
  { EmptyMap,
    <<HostRating("m1", "k1", 500, 717, 1, 5), HostRating("m3", "k1", -300, 590, 2, 7)>> }

\* the Box-Muller values of the scoring loop, one per candidate
NormalDraws == { <<0, 0, 0, 0, 0>>, <<1500, -2000, 300, -700, 2500>> }

\* the Math.random() values of weightedSample, one per draw
UniformDraws == { <<0, 0, 0, 0, 0>>, <<999, 999, 999, 999, 999>>, <<500, 250, 999, 0, 750>> }

Draws == [now : {Today}, normals : NormalDraws, uniforms : UniformDraws]

-----------------------------------------------------------------------------
(* diversity.ts: a selectByMMR call and a weightedSample call, one loop
   iteration per step *)

\* a text of two-letter words, one per letter
RECURSIVE Doc(_)
Doc(letters) ==
  IF Len(letters) = 0 THEN << >>
  ELSE IF Len(letters) = 1 THEN <<letters[1], letters[1]>>
  ELSE <<letters[1], letters[1], " ">> \o Doc(Tail(letters))

\* three near-duplicate contents: twelve words, the last word changed, and a
\* thirteenth word added
NearA == Doc(<<"a", "b", "c", "d", "e", "f", "g", "h", "j", "k", "l", "n">>)

NearB == Doc(<<"a", "b", "c", "d", "e", "f", "g", "h", "j", "k", "l", "p">>)

NearC == Doc(<<"a", "b", "c", "d", "e", "f", "g", "h", "j", "k", "l", "n", "q">>)

NearContents == <<NearA, NearB, NearC>>

ScoredItem(id, content, score, pos) ==
  [id |-> id, content |-> content, score |-> score, pos |-> pos]

\* composite scores of candidates, in fixed point
Scores == {200, 500, 900}

Ids == <<"m1", "m2", "m3", "m4">>

\* the pools of three near-duplicates, with every assignment of scores
NearPools ==
  { [i \in 1..3 |-> ScoredItem(Ids[i], NearContents[i], score[i], i)] :
      score \in [1..3 -> Scores] }

\* candidate lists: none, one, the near-duplicate pools, and lists with equal
\* scores, equal contents and unrelated contents
CandidateLists ==
  { << >>,
    <<ScoredItem("m1", TextGpu, 500, 1)>>,
    <<ScoredItem("m1", NearA, 500, 1), ScoredItem("m2", TextGpu, 500, 2),
      ScoredItem("m3", NearA, 500, 3), ScoredItem("m4", NearB, 900, 4)>>,
    <<ScoredItem("m1", TextRedFox, -300, 1), ScoredItem("m2", NearC, 900, 2),
      ScoredItem("m3", NearA, 900, 3), ScoredItem("m4", TextRedFoxHome, 0, 4)>> }
  \cup NearPools

Lambdas == {0, 300, MMR_LAMBDA, 1000}

\* limit: 0, 0.5, 1, 2 and 5
MMRLimits == {0, 500, 1000, 2000, 5000}

NoPick == [remaining |-> << >>, selected |-> << >>, bestIdx |-> 0]

\* selectByMMR(candidates, lambda, limit) before the first test of its loop
MMRCall(candidates, lambda, limit) ==
  [candidates |-> candidates, lambda |-> lambda, limit |-> limit,
   selected |-> << >>, remaining |-> sortByScoreDesc(candidates),
   steps |-> 0, last |-> NoPick, returned |-> FALSE]

\* weights of the items of a weightedSample call
Weights == {-500, 0, 300, 700}

MaxItems == 3

\* lists of up to MaxItems weights
WeightLists == UNION { [1..n -> Weights] : n \in 0..MaxItems }

\* k: -1, 0, 1, 1.5, 2 and 4
SampleSizes == {-1000, 0, 1000, 1500, 2000, 4000}

\* values of Math.random(), in [0, 1)
Uniforms == {0, 340, 500, 670, 999}

NoDraw == [pool |-> << >>, w |-> << >>, u |-> 0, idx |-> 0]

\* weightedSample(items, weights, k) before the first test of its loop; the
\* items are named by their positions in `items`
SampleCall(weights, k) ==
  [items |-> << >> \o [i \in 1..Len(weights) |-> i], weights |-> << >> \o weights,
   k |-> k, result |-> << >>, pool |-> << >> \o [i \in 1..Len(weights) |-> i],
   w |-> << >> \o weights, draws |-> 0, last |-> NoDraw, returned |-> FALSE]

DiversityIdle ==
  /\ mmr = MMRCall(<< >>, MMR_LAMBDA, 0)
  /\ sample = SampleCall(<< >>, 0)

\* one iteration of the while loop of selectByMMR
MMRIterate ==
  /\ ~mmr.returned
  /\ mmrContinues(mmr.selected, mmr.remaining, mmr.limit)
  /\ LET next == mmrStep(mmr.selected, mmr.remaining, mmr.lambda)
     IN mmr' = [mmr EXCEPT !.selected = next.selected,
                           !.remaining = next.remaining,
                           !.steps = @ + 1,
                           !.last = [remaining |-> mmr.remaining,
                                     selected |-> mmr.selected,
                                     bestIdx |-> next.bestIdx]]
  /\ UNCHANGED <<ratingVars, loopVars, memoryList, ratingsTable, selected, repeated, sample, callVars>>

\* the loop ends and selectByMMR returns `selected`
MMRReturn ==
  /\ ~mmr.returned
  /\ ~mmrContinues(mmr.selected, mmr.remaining, mmr.limit)
  /\ mmr' = [mmr EXCEPT !.returned = TRUE]
  /\ UNCHANGED <<ratingVars, loopVars, memoryList, ratingsTable, selected, repeated, sample, callVars>>

\* one iteration of the while loop of weightedSample; u is its Math.random()
SampleDraw(u) ==
  /\ ~sample.returned
  /\ sampleContinues(sample.result, sample.pool, sample.k)
  /\ LET next == sampleStep(sample.result, sample.pool, sample.w, u)
     IN sample' = [sample EXCEPT !.result = next.result,
                                 !.pool = next.pool,
                                 !.w = next.w,
                                 !.draws = @ + 1,
                                 !.last = [pool |-> sample.pool, w |-> sample.w,
                                           u |-> u, idx |-> next.idx]]
  /\ UNCHANGED <<ratingVars, loopVars, memoryList, ratingsTable, selected, repeated, mmr, callVars>>

\* the loop ends and weightedSample returns `result`
SampleReturn ==
  /\ ~sample.returned
  /\ ~sampleContinues(sample.result, sample.pool, sample.k)
  /\ sample' = [sample EXCEPT !.returned = TRUE]
  /\ UNCHANGED <<ratingVars, loopVars, memoryList, ratingsTable, selected, repeated, mmr, callVars>>

-----------------------------------------------------------------------------
(* part_001: executeAutonomousContinuation.  The calls in progress form a
   stack: a call awaits the recursive call it made.  A call runs from one
   `await` to the next as one step; pc names what the call is waiting for. *)

\* nesting of recursive calls the model follows when maxDepth sets no bound
MaxNesting == 4

\* strings of nextActions, as their pieces: 'ACTION:open|x' and a query
ActionOpen == <<"ACTION:", "open", "|", "x">>

QueryMore == <<"look", "further">>

\* action.startsWith('ACTION:')
startsWithAction(action) == Len(action) > 0 /\ action[1] = "ACTION:"

Reflection(shouldContinue, nextActions) ==
  [shouldContinue |-> shouldContinue, nextActions |-> ArrayOf(nextActions)]

\* results of performPostReflection: as PostReflectionResult types them, and a
\* parsed JSON object {"shouldContinue": true} that has no nextActions
ReflectionResults ==
  { Reflection(TRUE, <<QueryMore>>),
    Reflection(TRUE, <<ActionOpen, QueryMore>>),
    Reflection(FALSE, <<QueryMore>>),
    Reflection(TRUE, << >>),
    [shouldContinue |-> TRUE, nextActions |-> Undefined] }

\* values of maxDepth: negative, zero, a fraction, whole ones up to the
\* default 3, and NaN
MaxDepths == {-Scale, 0, Scale \div 2, Scale, 2 * Scale, 3 * Scale, NaN}

\* `!reflectionResult.shouldContinue || reflectionResult.nextActions.length === 0`
nothingToDo(reflectionResult) ==
  \/ ~reflectionResult.shouldContinue
  \/ Len(reflectionResult.nextActions.items) = 0

\* `maxDepth <= 0` (false for NaN)
depthReached(maxDepth) == maxDepth # NaN /\ maxDepth <= 0

\* a recursive call that passes maxDepth on as it is
nextDepthSame(maxDepth) == maxDepth

\* `maxDepth - 1`, the argument of the recursive call
nextDepth(maxDepth) == IF maxDepth = NaN THEN NaN ELSE maxDepth - Scale

\* a call that has just been made; `calls` counts its own apiCall and
\* executeAction calls
NewCall(reflectionResult, maxDepth) ==
  [reflectionResult |-> reflectionResult, maxDepth |-> maxDepth, index |-> 1,
   pc |-> "entry", calls |-> 0]

NoContinuation ==
  [called |-> FALSE, maxDepth |-> 0, handler |-> FALSE, outcome |-> "none"]

ContinuationIdle ==
  /\ stack = << >>
  /\ continuation = NoContinuation

\* the innermost call
Top == stack[Len(stack)]

\* the innermost call returns or throws: the host's call settles, or the
\* caller, which awaited it inside its try, goes on with its next action
\* (a throw reaches the catch, which logs it)
Settles(threw) ==
  IF Len(stack) = 1
  THEN /\ stack' = << >>
       /\ continuation' = [continuation EXCEPT
                             !.outcome = IF threw THEN "threw" ELSE "returned"]
  ELSE /\ stack' = [SubSeq(stack, 1, Len(stack) - 1) EXCEPT
                      ![Len(stack) - 1].index = @ + 1,
                      ![Len(stack) - 1].pc = "loop"]
       /\ UNCHANGED continuation

\* the host calls executeAutonomousContinuation(reflectionResult, context,
\* apiCall, apiKey, model, executeAction?, maxDepth)
CallContinuation(reflectionResult, maxDepth, handler) ==
  /\ ~continuation.called
  /\ stack' = <<NewCall(reflectionResult, maxDepth)>>
  /\ continuation' = [called |-> TRUE, maxDepth |-> maxDepth, handler |-> handler,
                      outcome |-> "pending"]
  /\ UNCHANGED <<ratingVars, loopVars, memoryList, ratingsTable, selected,
                 repeated, divVars, bm25Call, tokenCall>>

\* the two guards at the head of the function.  `nextActions.length` throws
\* a TypeError when shouldContinue is set and nextActions is missing.
Enter ==
  /\ stack # << >>
  /\ Top.pc = "entry"
  /\ IF Top.reflectionResult.shouldContinue
          /\ Top.reflectionResult.nextActions.kind # "array"
     THEN Settles(TRUE)
     ELSE IF nothingToDo(Top.reflectionResult) \/ depthReached(Top.maxDepth)
     THEN Settles(FALSE)
     ELSE /\ stack' = [stack EXCEPT ![Len(stack)].pc = "loop"]
          /\ UNCHANGED continuation
  /\ UNCHANGED <<ratingVars, loopVars, memoryList, ratingsTable, selected,
                 repeated, divVars, bm25Call, tokenCall>>

\* the head of `for (const action of reflectionResult.nextActions)`: the loop
\* ends and the call returns, or the next action is started: executeAction is
\* called for an 'ACTION:' string (skipped with a warning when no handler was
\* given), apiCall for any other
Iterate ==
  /\ stack # << >>
  /\ Top.pc = "loop"
  /\ LET actions == Top.reflectionResult.nextActions.items
     IN IF Top.index > Len(actions)
        THEN Settles(FALSE)
        ELSE /\ stack' = [stack EXCEPT ![Len(stack)] =
                  IF startsWithAction(actions[Top.index])
                  THEN IF continuation.handler
                       THEN [Top EXCEPT !.pc = "executeAction", !.calls = @ + 1]
                       ELSE [Top EXCEPT !.index = @ + 1]
                  ELSE [Top EXCEPT !.pc = "apiCall", !.calls = @ + 1]]
             /\ UNCHANGED continuation
  /\ UNCHANGED <<ratingVars, loopVars, memoryList, ratingsTable, selected,
                 repeated, divVars, bm25Call, tokenCall>>

\* `await executeAction(actionId, payload)` returns or throws: either way the
\* loop goes on with the next action
ExecuteActionSettles(threw) ==
  /\ stack # << >>
  /\ Top.pc = "executeAction"
  /\ stack' = [stack EXCEPT ![Len(stack)].index = @ + 1, ![Len(stack)].pc = "loop"]
  /\ UNCHANGED continuation
  /\ UNCHANGED <<ratingVars, loopVars, memoryList, ratingsTable, selected,
                 repeated, divVars, bm25Call, tokenCall>>

\* `await apiCall(...)` throws, and the loop goes on with the next action, or
\* returns the response, and performPostReflection is called
ApiCallSettles(threw) ==
  /\ stack # << >>
  /\ Top.pc = "apiCall"
  /\ stack' = [stack EXCEPT ![Len(stack)] =
                 IF threw THEN [Top EXCEPT !.index = @ + 1, !.pc = "loop"]
                 ELSE [Top EXCEPT !.pc = "performPostReflection"]]
  /\ UNCHANGED continuation
  /\ UNCHANGED <<ratingVars, loopVars, memoryList, ratingsTable, selected,
                 repeated, divVars, bm25Call, tokenCall>>

\* performPostReflection returns nextReflection (it catches what its own
\* apiCall and JSON.parse throw and then returns shouldContinue: false); with
\* nextReflection.shouldContinue set the recursive call is made and awaited
PostReflectionSettles(nextReflection) ==
  /\ stack # << >>
  /\ Top.pc = "performPostReflection"
  /\ nextReflection.shouldContinue => Len(stack) <= MaxNesting
  /\ stack' = IF nextReflection.shouldContinue
              THEN Append([stack EXCEPT ![Len(stack)].pc = "executeAutonomousContinuation"],
                          NewCall(nextReflection, nextDepth(Top.maxDepth)))
              ELSE [stack EXCEPT ![Len(stack)].index = @ + 1, ![Len(stack)].pc = "loop"]
  /\ UNCHANGED continuation
  /\ UNCHANGED <<ratingVars, loopVars, memoryList, ratingsTable, selected,
                 repeated, divVars, bm25Call, tokenCall>>

-----------------------------------------------------------------------------
(* bm25.ts: a calculateBM25 call *)

\* "fox gpu fox"
TextFoxGpuFox ==
  <<"f", "o", "x", " ", "g", "p", "u", " ", "f", "o", "x">>

\* the query texts: with tokens of the documents, without, and without tokens
QueryTexts ==
  { << >>, TextQuiet, WordFox, WordGpu, WordZz, PromptFoxRuns, TextGpu,
    TextFoxGpuFox, TextRedFoxHome }

Content(text) == [content |-> text]

\* the candidate sets whose statistics are built
CandidateSets ==
  { <<Content(TextRedFox)>>,
    <<Content(TextGpu), Content(TextQuiet)>>,
    <<Content(TextRedFox), Content(TextGpu), Content(TextRedFoxHome)>>,
    <<Content(TextRedFox), Content(TextRedFoxHome), Content(TextRedFox),
      Content(TextFoxGpuFox)>>,
    <<Content(TextGpu), Content(TextRedFox), Content(TextQuiet),
      Content(TextFoxGpuFox), Content(TextRedFoxHome)>> }

\* avgDocLength as selectMemories computes it
averageDocLength(candidates) ==
  (docLengthSum(candidates) * Scale) \div Len(candidates)

NoScoring ==
  [called |-> FALSE, queryTokens |-> << >>, documentTokens |-> << >>,
   documentFrequencies |-> EmptyMap, totalDocuments |-> 0, avgDocLength |-> 0,
   result |-> 0]

\* the characters of the texts tokenized: letters of stop words in both cases,
\* white space and punctuation
TextAlphabet == {"a", "I", "t", " ", "\n", "-"}

MaxTextLen == 5

\* every text over the alphabet, up to the longest
Texts == UNION {[1..n -> TextAlphabet] : n \in 0..MaxTextLen}

NoTokens == [called |-> FALSE, text |-> << >>, tokens |-> << >>, again |-> << >>]

CallsIdle ==
  /\ bm25Call = NoScoring
  /\ tokenCall = NoTokens
  /\ ContinuationIdle

\* tokenize(text), and tokenize(tokens.join(' ')) on its result
Tokenize(text) ==
  LET tokens == tokenize(text)
  IN /\ ~tokenCall.called
     /\ tokenCall' = [called |-> TRUE, text |-> text, tokens |-> tokens,
                      again |-> tokenize(join(tokens, <<" ">>))]
     /\ UNCHANGED <<ratingVars, loopVars, memoryList, ratingsTable, selected,
                    repeated, divVars, bm25Call, contVars>>

\* calculateBM25(tokenize(queryText), tokenize(candidates[i].content),
\*               buildDocumentFrequencies(candidates), candidates.length, avgDocLength)
ScoreDocument(queryText, candidates, i, avgDocLength) ==
  /\ ~bm25Call.called
  /\ bm25Call' =
       Const([called |-> TRUE, queryTokens |-> tokenize(queryText),
              documentTokens |-> tokenize(candidates[i].content),
              documentFrequencies |-> buildDocumentFrequencies(candidates),
              totalDocuments |-> Len(candidates),
              avgDocLength |-> avgDocLength],
             LAMBDA arguments :
               [called |-> TRUE, queryTokens |-> arguments.queryTokens,
                documentTokens |-> arguments.documentTokens,
                documentFrequencies |-> arguments.documentFrequencies,
                totalDocuments |-> arguments.totalDocuments,
                avgDocLength |-> arguments.avgDocLength,
                result |-> calculateBM25(arguments.queryTokens,
                                         arguments.documentTokens,
                                         arguments.documentFrequencies,
                                         arguments.totalDocuments,
                                         arguments.avgDocLength)])
  /\ UNCHANGED <<ratingVars, loopVars, memoryList, ratingsTable, selected,
                 repeated, divVars, tokenCall, contVars>>

-----------------------------------------------------------------------------
(* selector.ts: selectMemories *)

\* scored.map(s => s.score)
RECURSIVE scoresOf(_)
scoresOf(scored) ==
  IF Len(scored) = 0 THEN << >> ELSE <<Head(scored).score>> \o scoresOf(Tail(scored))

RECURSIVE memoryRefsOf(_)
memoryRefsOf(items) ==
  IF Len(items) = 0 THEN << >> ELSE <<Head(items).memory>> \o memoryRefsOf(Tail(items))

RECURSIVE pick(_, _)
pick(list, positions) ==
  IF Len(positions) = 0 THEN << >>
  ELSE <<list[Head(positions)]>> \o pick(list, Tail(positions))

\* diverse.map(item => ({memoryId: item.memory.id, ...}))
RECURSIVE toSelectedMemories(_, _)
toSelectedMemories(candidates, diverse) ==
  IF Len(diverse) = 0 THEN << >>
  ELSE LET item == Head(diverse)
           memory == candidates[item.memory]
       IN <<[memoryId |-> memory.id, content |-> memory.content, tags |-> memory.tags,
             score |-> item.score, signals |-> item.signals]>>
          \o toSelectedMemories(candidates, Tail(diverse))

NothingSelected(memories, ratings) ==
  [result |-> << >>, memories |-> memories, ratings |-> ratings,
   candidates |-> << >>, oversampled |-> << >>, diverse |-> << >>, rated |-> << >>]

\* a selection whose document frequencies, N and average document length are
\* those of the whole memory list
selectCandidatesGlobalStats(memories, positions, candidates, kernel, ratings, limit, opts, draws) ==
  Const([df |-> buildDocumentFrequencies(memories),
         totalDocs |-> Len(memories),
         avgDocLength |-> (docLengthSum(memories) * Scale) \div Len(memories),
         queryTokens |-> queryTokensOf(kernel, opts.queryTerms)],
        LAMBDA stats :
  Const(scoreCandidates(candidates, kernel, ratings, stats, draws, Len(candidates)),
        LAMBDA scoring :
  Const(weightedSample(scoring.scored, scoresOf(scoring.scored),
                       Min(limit * OVERSAMPLE_FACTOR, Len(scoring.scored) * Scale),
                       draws.uniforms),
        LAMBDA oversampled :
  Const(selectByMMR(oversampled, MMR_LAMBDA, limit),
        LAMBDA diverse :
          [result |-> toSelectedMemories(candidates, diverse),
           memories |-> memories,
           ratings |-> scoring.ratings,
           candidates |-> positions,
           oversampled |-> memoryRefsOf(oversampled),
           diverse |-> memoryRefsOf(diverse),
           rated |-> scoring.rated]))))

\* selectMemories on a candidate list that is not empty (selector.ts 104-165)
selectCandidates(memories, positions, candidates, kernel, ratings, limit, opts, draws) ==
  Const([df |-> buildDocumentFrequencies(candidates),
         totalDocs |-> Len(candidates),
         avgDocLength |-> (docLengthSum(candidates) * Scale) \div Len(candidates),
         queryTokens |-> queryTokensOf(kernel, opts.queryTerms)],
        LAMBDA stats :
  Const(scoreCandidates(candidates, kernel, ratings, stats, draws, Len(candidates)),
        LAMBDA scoring :
  Const(weightedSample(scoring.scored, scoresOf(scoring.scored),
                       Min(limit * OVERSAMPLE_FACTOR, Len(scoring.scored) * Scale),
                       draws.uniforms),
        LAMBDA oversampled :
  Const(selectByMMR(oversampled, MMR_LAMBDA, limit),
        LAMBDA diverse :
          [result |-> toSelectedMemories(candidates, diverse),
           memories |-> memories,
           ratings |-> scoring.ratings,
           candidates |-> positions,
           oversampled |-> memoryRefsOf(oversampled),
           diverse |-> memoryRefsOf(diverse),
           rated |-> scoring.rated]))))

\* selectMemories(memories, kernel, ratings, limit, options): the result, the
\* two arguments as the call leaves them, and for the record the positions in
\* `memories` of the candidates, the candidates (by position in the candidate
\* list) drawn by weightedSample and kept by selectByMMR, and the rating each
\* candidate was scored with
selectMemories(memories, kernel, ratings, limit, options, draws) ==
  LET opts == optionsOf(options)
      positions == candidatePositions(memories, kernel, opts.bypassTagFilter)
  IN IF Len(memories) = 0 THEN NothingSelected(memories, ratings)
     ELSE IF Len(positions) = 0 THEN NothingSelected(memories, ratings)
     ELSE selectCandidates(memories, positions, pick(memories, positions), kernel,
                           ratings, limit, opts, draws)

NotSelected ==
  [called |-> FALSE, kernel |-> PromptKernel("k1", << >>, << >>, << >>), limit |-> 0,
   options |-> [given |-> {}, queryTerms |-> << >>, bypassTagFilter |-> FALSE],
   draws |-> [now |-> 0, normals |-> << >>, uniforms |-> << >>],
   memories |-> << >>, result |-> << >>, candidates |-> << >>, oversampled |-> << >>,
   diverse |-> << >>, rated |-> << >>]

\* one call selectMemories(memoryList, kernel, ratingsTable, limit, options); the
\* function has no await, so the call is one step
Select(kernel, limit, options, draws) ==
  LET out == selectMemories(memoryList, kernel, ratingsTable, limit, options, draws)
  IN /\ ~selected.called
     /\ memoryList' = out.memories
     /\ ratingsTable' = out.ratings
     /\ selected' = [called |-> TRUE, kernel |-> kernel, limit |-> limit,
                     options |-> options, draws |-> draws,
                     memories |-> memoryList, result |-> out.result,
                     candidates |-> out.candidates, oversampled |-> out.oversampled,
                     diverse |-> out.diverse, rated |-> out.rated]
     /\ UNCHANGED <<ratingVars, loopVars, repeated, divVars, callVars>>

\* a second call selectMemories(memoryList, kernel, ratingsTable, limit, options)
\* with the arguments of the first, on the list and the table as the first call
\* left them, with the same values of Math.random() and with Date.now() = now
SelectAgain(now) ==
  LET draws == [selected.draws EXCEPT !.now = now]
      out == selectMemories(memoryList, selected.kernel, ratingsTable, selected.limit,
                            selected.options, draws)
  IN /\ selected.called
     /\ ~repeated.called
     /\ memoryList' = out.memories
     /\ ratingsTable' = out.ratings
     /\ repeated' = [called |-> TRUE, kernel |-> selected.kernel,
                     limit |-> selected.limit, options |-> selected.options,
                     draws |-> draws, memories |-> memoryList,
                     result |-> out.result,
                     candidates |-> out.candidates, oversampled |-> out.oversampled,
                     diverse |-> out.diverse, rated |-> out.rated]
     /\ UNCHANGED <<ratingVars, loopVars, selected, divVars, callVars>>

SelectIdle ==
  /\ memoryList = << >>
  /\ ratingsTable = EmptyMap
  /\ selected = NotSelected
  /\ repeated = NotSelected
  /\ CallsIdle
  /\ DiversityIdle

RatingStart ==
  /\ LoopInit
  /\ SelectIdle
  /\ rating \in [memoryId : {"m1"}, kernelId : {"k1"}, mu : StartMus,
                 sigma : StartSigmas, uses : StartUses, lastUpdatedAt : {0}]
  /\ prevRating = rating
  /\ lastReward = 0
  /\ updates = 0

\* the rating of a pair that has none yet: the value of initializeRating
FreshStart ==
  /\ LoopInit
  /\ SelectIdle
  /\ rating = initializeRating("m1", "k1", 0)
  /\ prevRating = rating
  /\ lastReward = 0
  /\ updates = 0

-----------------------------------------------------------------------------
(* Specifications *)

\* Spec: the calls of two callers interleave freely at their suspension points
Init == RatingIdle /\ LoopInit /\ SelectIdle

Next ==
  \/ SetStorage
  \/ \E c \in Callers :
       \/ Calls(c, RaceFeedbackArgs, RaceUsageArgs, RaceSaveArgs, {"p1"},
                [serial |-> FALSE, limit |-> MaxRaceCalls])
       \/ Resume(c)

Spec == Init /\ [][Next]_vars

\* SpecSerial: the scheduling the callers are held to: calls that write one
\* profile are serialized, loads may overlap them
SerialNext ==
  \/ SetStorage
  \/ \E c \in Callers :
       \/ Calls(c, FeedbackArgs, UsageArgs, SaveArgs, Profiles,
                [serial |-> TRUE, limit |-> MaxCalls])
       \/ Resume(c)

SpecSerial == Init /\ [][SerialNext]_vars

\* SpecCap: serialized feedback with a reward list longer than the interaction cap
CapNext ==
  \/ SetStorage
  \/ \E c \in Callers :
       \/ Calls(c, CapFeedbackArgs, CapUsageArgs, CapSaveArgs, {"p1"},
                [serial |-> TRUE, limit |-> MaxCapCalls])
       \/ Resume(c)

SpecCap == Init /\ [][CapNext]_vars

\* SpecContinuation: one executeAutonomousContinuation call; every call that
\* is awaited settles, and the event loop runs what is ready
ContinuationNext ==
  \/ \E reflectionResult \in ReflectionResults, maxDepth \in MaxDepths, handler \in BOOLEAN :
       CallContinuation(reflectionResult, maxDepth, handler)
  \/ Enter
  \/ Iterate
  \/ \E threw \in BOOLEAN : ExecuteActionSettles(threw)
  \/ \E threw \in BOOLEAN : ApiCallSettles(threw)
  \/ \E nextReflection \in ReflectionResults : PostReflectionSettles(nextReflection)

SpecContinuation == Init /\ [][ContinuationNext]_vars /\ WF_vars(ContinuationNext)

\* SpecFresh: updateRating applied repeatedly to a fresh rating
FreshNext == \E reward \in Rewards : UpdateFreshRating(reward)

SpecFresh == FreshStart /\ [][FreshNext]_vars

\* SpecRating: updateRating applied repeatedly to one rating
RatingNext == \E reward \in Rewards : UpdateRatingStep(reward)

SpecRating == RatingStart /\ [][RatingNext]_vars

\* SpecSelect: one selectMemories call on a memory list and a ratings table
SelectStart ==
  /\ RatingIdle
  /\ LoopInit
  /\ memoryList \in MemoryLists
  /\ ratingsTable \in RatingTables
  /\ selected = NotSelected
  /\ repeated = NotSelected
  /\ CallsIdle
  /\ DiversityIdle

SelectNext ==
  \E kernel \in PromptKernels, limit \in Limits, options \in SelectionOptions,
     draws \in Draws : Select(kernel, limit, options, draws)

SpecSelect == SelectStart /\ [][SelectNext]_vars

\* between two calls the host takes one memory out of its list, or puts one in
\* at the front or at the end (while the list is shorter than the stream of
\* draws)
HostEditsMemories ==
  /\ selected.called
  /\ ~repeated.called
  /\ memoryList = selected.memories
  /\ \/ \E i \in 1..Len(memoryList) : memoryList' = removeAt(memoryList, i)
     \/ /\ Len(memoryList) < Len(selected.draws.normals)
        /\ \E m \in {MemQuiet, MemGpu, MemRedFox} :
             memoryList' \in {<<m>> \o memoryList, Append(memoryList, m)}
  /\ UNCHANGED <<ratingVars, loopVars, ratingsTable, selected, repeated, divVars, callVars>>

\* Date.now() of a second selection: the same day, and a half-life later
Clocks == {Today, Today + HALF_LIFE_DAYS}

\* SpecRepeat: one selectMemories call and a second one with the same arguments
\* and the same random draws
RepeatNext ==
  \/ \E kernel \in { PromptKernel("k1", WordFox, PromptFoxRuns, <<TagAi>>),
                      PromptKernel("k1", WordGpu, << >>, << >>) },
        limit \in {1000, 20000},
        options \in { [given |-> {}, queryTerms |-> << >>, bypassTagFilter |-> FALSE],
                      [given |-> {"bypassTagFilter"}, queryTerms |-> << >>,
                       bypassTagFilter |-> TRUE] },
        draws \in [now : {Today}, normals : NormalDraws,
                   uniforms : {<<500, 250, 999, 0, 750>>}] :
        Select(kernel, limit, options, draws)
  \/ \E now \in Clocks : SelectAgain(now)

SpecRepeat == SelectStart /\ [][RepeatNext]_vars

\* SpecFiltered: two selectMemories calls with the same arguments and draws but
\* for the memory list, which the host changes in between
FilteredNext ==
  \/ \E kernel \in { PromptKernel("k1", WordFox, PromptFoxRuns, <<TagAi>>),
                      PromptKernel("k1", WordGpu, << >>, <<WordDogs, TagAI>>) },
        options \in { [given |-> {}, queryTerms |-> << >>, bypassTagFilter |-> FALSE],
                      [given |-> {"bypassTagFilter"}, queryTerms |-> << >>,
                       bypassTagFilter |-> TRUE] },
        draws \in [now : {Today}, normals : NormalDraws,
                   uniforms : {<<500, 250, 999, 0, 750>>}] :
        Select(kernel, 20000, options, draws)
  \/ HostEditsMemories
  \/ SelectAgain(Today)

SpecFiltered == SelectStart /\ [][FilteredNext]_vars

\* SpecBM25: one calculateBM25 call for a document of a candidate set, with the
\* document frequencies of the set; avgDocLength is the set's average, or 0, or
\* a length far above every document's
BM25Next ==
  \E queryText \in QueryTexts, candidates \in CandidateSets :
    \E i \in 1..Len(candidates),
       avgDocLength \in {averageDocLength(candidates), 0, 100 * Scale} :
      ScoreDocument(queryText, candidates, i, avgDocLength)

SpecBM25 == Init /\ [][BM25Next]_vars

\* SpecTokenize: one tokenize call on a text, and one on its tokens joined
TokenizeNext == \E text \in Texts : Tokenize(text)

SpecTokenize == Init /\ [][TokenizeNext]_vars

\* SpecFailing: serialized calls on an adapter whose operations may reject
FailingNext ==
  \/ SetStorage
  \/ \E c \in Callers :
       \/ Calls(c, RaceFeedbackArgs, RaceUsageArgs, RaceSaveArgs, {"p1"},
                [serial |-> TRUE, limit |-> MaxFailingCalls])
       \/ Resume(c)
       \/ StorageFails(c)

SpecFailing == Init /\ [][FailingNext]_vars

\* SpecCorrupt: serialized calls on a profile whose stored ratings and
\* interactions are absent or corrupt when the adapter is injected
CorruptStart ==
  /\ RatingIdle
  /\ SelectIdle
  /\ storage = Null
  /\ settings \in { [k \in SettingKeys |->
                       IF k = RatingsKey("p1") THEN r
                       ELSE IF k = InteractionsKey("p1") THEN x
                       ELSE Undefined] :
                     r \in CorruptValues \cup {Undefined},
                     x \in CorruptValues \cup {Undefined} }
  /\ heap = [s \in Slots |-> EmptyMap]
  /\ pc = [c \in Callers |-> "idle"]
  /\ frame = [c \in Callers |-> IdleFrame]
  /\ clock = 0
  /\ uuids = 0
  /\ calls = 0
  /\ held = [valid |-> FALSE, table |-> EmptyMap]
  /\ appended = [p \in Profiles |-> << >>]
  /\ applied = [p \in Profiles |-> NoPairs]
  /\ lastDone = NoCall
  /\ overwritten = {}
  /\ raced = FALSE

CorruptNext ==
  \/ SetStorage
  \/ \E c \in Callers :
       \/ Calls(c, CorruptFeedbackArgs, CorruptUsageArgs, CorruptSaveArgs, {"p1"},
                [serial |-> TRUE, limit |-> MaxCorruptCalls])
       \/ Resume(c)

SpecCorrupt == CorruptStart /\ [][CorruptNext]_vars

\* SpecUnavailable: calls of the learning loop and one selectMemories call on
\* an empty ratings table, before and after the adapter is injected
UnavailableStart ==
  /\ RatingIdle
  /\ LoopInit
  /\ memoryList \in { <<MemGpu, MemQuiet>>, <<MemRedFox, MemGpu, MemRedFoxHome>> }
  /\ ratingsTable = EmptyMap
  /\ selected = NotSelected
  /\ repeated = NotSelected
  /\ CallsIdle
  /\ DiversityIdle

UnavailableNext ==
  \/ SetStorage
  \/ \E c \in Callers :
       \/ Calls(c, RaceFeedbackArgs, RaceUsageArgs, RaceSaveArgs, {"p1"},
                [serial |-> TRUE, limit |-> MaxUnavailableCalls])
       \/ Resume(c)
  \/ \E kernel \in { PromptKernel("k1", WordFox, PromptFoxRuns, <<TagAi>>),
                      PromptKernel("k1", WordGpu, << >>, << >>) },
        limit \in {1000, 20000},
        draws \in [now : {Today}, normals : {<<1500, -2000, 300, -700, 2500>>},
                   uniforms : {<<500, 250, 999, 0, 750>>}] :
        Select(kernel, limit,
               [given |-> {}, queryTerms |-> << >>, bypassTagFilter |-> FALSE], draws)

SpecUnavailable == UnavailableStart /\ [][UnavailableNext]_vars

\* SpecMMR: one selectByMMR call, iteration by iteration
MMRStart ==
  /\ RatingIdle
  /\ LoopInit
  /\ memoryList = << >>
  /\ ratingsTable = EmptyMap
  /\ selected = NotSelected
  /\ repeated = NotSelected
  /\ CallsIdle
  /\ sample = SampleCall(<< >>, 0)
  /\ mmr \in { MMRCall(candidates, lambda, limit) :
                 candidates \in CandidateLists, lambda \in Lambdas,
                 limit \in MMRLimits }

MMRNext == MMRIterate \/ MMRReturn

SpecMMR == MMRStart /\ [][MMRNext]_vars

\* SpecSample: one weightedSample call, draw by draw
SampleStart ==
  /\ RatingIdle
  /\ LoopInit
  /\ memoryList = << >>
  /\ ratingsTable = EmptyMap
  /\ selected = NotSelected
  /\ repeated = NotSelected
  /\ CallsIdle
  /\ mmr = MMRCall(<< >>, MMR_LAMBDA, 0)
  /\ sample \in { SampleCall(weights, k) :
                    weights \in WeightLists, k \in SampleSizes }

SampleNext ==
  \/ \E u \in Uniforms : SampleDraw(u)
  \/ SampleReturn

SpecSample == SampleStart /\ [][SampleNext]_vars

-----------------------------------------------------------------------------
(* Claims *)

\* C1: every rating returned by updateRating, from any finite starting sigma
\* and any rewards, has 0.1 <= sigma <= 2.0, and each call raises uses by
\* exactly 1.
C1_SigmaBoundedUsesCounted ==
  updates > 0 =>
    /\ rating.sigma # NaN
    /\ SIGMA_MIN <= rating.sigma
    /\ rating.sigma <= SIGMA_MAX
    /\ rating.uses = prevRating.uses + 1

\* two characters that are the same letter, whatever their case
SameLetter(a, b) ==
  a = b \/ \E j \in DOMAIN UpperCase : {a, b} = {UpperCase[j], LowerCase[j]}

EqualIgnoringCase(s, t) ==
  Len(s) = Len(t) /\ \A i \in 1..Len(s) : SameLetter(s[i], t[i])

TagOfKeywords(tags, keywords) ==
  \E i \in 1..Len(tags), j \in 1..Len(keywords) : EqualIgnoringCase(tags[i], keywords[j])

TagFilterActive ==
  /\ selected.called
  /\ Len(selected.kernel.keywords) > 0
  /\ "bypassTagFilter" \notin selected.options.given \/ ~selected.options.bypassTagFilter

\* C2: when kernel.keywords is not empty and bypassTagFilter is false, every
\* memory returned by selectMemories has a tag that equals a kernel keyword up
\* to case, and the result is [] when no memory of the list has such a tag.
C2_TagFilter ==
  TagFilterActive =>
    /\ \A i \in 1..Len(selected.result) :
         TagOfKeywords(selected.result[i].tags, selected.kernel.keywords)
    /\ (\A i \in 1..Len(memoryList) :
          ~TagOfKeywords(memoryList[i].tags, selected.kernel.keywords))
         => selected.result = << >>

\* a memory was returned for a tag that differs in case from every keyword,
\* and a memory without a keyword tag was left out
C2_Witness ==
  /\ TagFilterActive
  /\ \E i \in 1..Len(selected.result) :
       \A t \in 1..Len(selected.result[i].tags), k \in 1..Len(selected.kernel.keywords) :
         selected.result[i].tags[t] # selected.kernel.keywords[k]
  /\ \E i \in 1..Len(memoryList) :
       ~TagOfKeywords(memoryList[i].tags, selected.kernel.keywords)

Distinct(positions) ==
  \A i, j \in 1..Len(positions) : i # j => positions[i] # positions[j]

\* the oversample holds `oversampled` candidates and the result `returned`
\* memories, each copied from a distinct candidate
SelectionCounts(oversampled, returned) ==
  /\ Len(selected.oversampled) * Scale = oversampled
  /\ Len(selected.result) * Scale = returned
  /\ Len(selected.diverse) = Len(selected.result)
  /\ Distinct(selected.oversampled)
  /\ Distinct(selected.diverse)
  /\ \A i \in 1..Len(selected.result) :
       /\ selected.diverse[i] \in 1..Len(selected.candidates)
       /\ LET memory == memoryList[selected.candidates[selected.diverse[i]]]
          IN /\ selected.result[i].memoryId = memory.id
             /\ selected.result[i].content = memory.content
             /\ selected.result[i].tags = memory.tags

\* C3 as stated: for limit >= 0, selectMemories oversamples exactly
\* min(3 * limit, |candidates|) candidates and returns exactly
\* min(limit, |candidates|) results, each from a distinct position of the
\* candidate list, with memoryId, content and tags copied unchanged.
C3_AnyLimit ==
  (selected.called /\ selected.limit >= 0) =>
    SelectionCounts(Min(3 * selected.limit, Len(selected.candidates) * Scale),
                    Min(selected.limit, Len(selected.candidates) * Scale))

\* C3, amended: the same for a limit that is a whole number >= 0.
C3_WholeLimit ==
  (selected.called /\ selected.limit >= 0 /\ selected.limit % Scale = 0) =>
    SelectionCounts(Min(3 * selected.limit, Len(selected.candidates) * Scale),
                    Min(selected.limit, Len(selected.candidates) * Scale))

\* a whole limit with more than 3 * limit candidates: the oversample is cut to
\* 3 * limit and the result to limit
C3_Witness ==
  /\ selected.called
  /\ selected.limit > 0
  /\ selected.limit % Scale = 0
  /\ 3 * selected.limit < Len(selected.candidates) * Scale
  /\ Len(selected.result) * Scale = selected.limit
  /\ Len(selected.oversampled) > Len(selected.result)

Quiet == \A c \in Callers : pc[c] = "idle"

\* C4: after serialized applyFeedback / recordUsage calls the stored
\* interactions of a profile number at most 1000 and are the most recent
\* min(n, 1000) of the n interactions ever appended, in the order appended.
C4_StoredMostRecent ==
  \A p \in Profiles :
    LET stored == StoredInteractions(p)
        n == Len(appended[p])
        keep == IF n < MAX_INTERACTIONS THEN n ELSE MAX_INTERACTIONS
    IN /\ Len(stored) <= MAX_INTERACTIONS
       /\ ~WriterOn(p) =>
            /\ Len(stored) = keep
            /\ \A i \in 1..keep : stored[i] = appended[p][n - keep + i]

\* two calls, more than 1000 interactions appended, the oldest dropped
C4_Witness ==
  /\ ~WriterOn("p1")
  /\ Len(appended["p1"]) > MAX_INTERACTIONS + 1
  /\ Len(StoredInteractions("p1")) = MAX_INTERACTIONS
  /\ StoredInteractions("p1")[1] # appended["p1"][1]

\* C5: recordUsage appends exactly one interaction with reward +1 per listed
\* id, in list order, carrying kernelId and contextId, and raises uses of the
\* rating (memoryId, kernelId) by 1 per occurrence of the id.
C5_UsageIsPositiveFeedback ==
  (lastDone.op = "recordUsage" /\ lastDone.outcome = "returned"
     /\ ~WriterOn(lastDone.profileId)) =>
    LET d == lastDone
        n == Len(d.rewards)
        stored == StoredInteractions(d.profileId)
        uses == UsesIn(StoredRatings(d.profileId))
    IN /\ Len(stored) = Min(d.preLen + n, MAX_INTERACTIONS)
       /\ \A i \in 1..n :
            Len(stored) - n + i >= 1 =>
              LET x == stored[Len(stored) - n + i]
              IN /\ x.reward = 1
                 /\ x.memoryId = d.rewards[i].memoryId
                 /\ x.kernelId = d.kernelId
                 /\ x.contextId = d.contextId
       /\ \A m \in Memories, k \in Kernels :
            uses[m, k] = d.preUses[m, k]
                         + IF k = d.kernelId THEN CountIn(d.rewards, m) ELSE 0

\* recordUsage of <<"m1", "m1">> on a profile that already holds interactions
C5_Witness ==
  /\ lastDone.op = "recordUsage"
  /\ lastDone.outcome = "returned"
  /\ ~WriterOn(lastDone.profileId)
  /\ lastDone.preLen > 0
  /\ CountIn(lastDone.rewards, "m1") = 2
  /\ lastDone.preUses["m1", lastDone.kernelId] > 0

\* C6: from empty storage, after serialized applyFeedback calls the stored
\* rating of every pair has uses equal to the number of reward entries
\* supplied for the pair, and a pair without feedback has no stored rating.
C6_UsesCountFeedback ==
  \A p \in Profiles \ overwritten :
    ~WriterOn(p) =>
      \A m \in Memories, k \in Kernels :
        LET map == StoredRatings(p)
            key == makeRatingKey(m, k)
        IN IF applied[p][m, k] > 0
           THEN MapHas(map, key) /\ MapGet(map, key).uses = applied[p][m, k]
           ELSE ~MapHas(map, key)

\* a pair rewarded by more than one call, next to a pair never rewarded
C6_Witness ==
  /\ Quiet
  /\ "p1" \notin overwritten
  /\ applied["p1"]["m1", "k2"] >= 3
  /\ applied["p1"]["m2", "k2"] = 0
  /\ MapGet(StoredRatings("p1"), makeRatingKey("m1", "k2")).uses >= 3

\* an appended interaction of the profile is not among the stored ones
InteractionLost(p) ==
  \E i \in 1..Len(appended[p]) :
    \A j \in 1..Len(StoredInteractions(p)) : StoredInteractions(p)[j] # appended[p][i]

\* a rating of the profile counts fewer uses than reward entries were applied
RatingUpdateLost(p) ==
  \E m \in Memories, k \in Kernels : UsesIn(StoredRatings(p))[m, k] < applied[p][m, k]

\* C7: when two applyFeedback calls on a profile interleave so that both
\* load before either saves, the interactions and rating updates of one call
\* are overwritten by the other and lost.
C7_RaceLosesFeedback ==
  (raced /\ Quiet) =>
    \E p \in Profiles :
      /\ Len(appended[p]) <= MAX_INTERACTIONS
      /\ InteractionLost(p)
      /\ p \notin overwritten => RatingUpdateLost(p)

\* both calls have returned and feedback of one of them is gone
C7_Witness ==
  /\ raced
  /\ Quiet
  /\ "p1" \notin overwritten
  /\ InteractionLost("p1")
  /\ RatingUpdateLost("p1")

\* C8: the table a host got from loadRatings is not changed by a later
\* applyFeedback, and a loadRatings started after an applyFeedback returned
\* yields the ratings with that feedback applied.
C8_SnapshotIsolation ==
  /\ held.valid => heap["snapshot"] = held.table
  /\ (lastDone.op = "loadRatings" /\ lastDone.outcome = "returned"
        /\ lastDone.profileId \notin overwritten) =>
       \A m \in Memories, k \in Kernels :
         UsesIn(heap["snapshot"])[m, k] >= lastDone.startApplied[m, k]

\* the host's table saw a first feedback call and not the one that followed
C8_Witness ==
  /\ held.valid
  /\ Quiet
  /\ "p1" \notin overwritten
  /\ lastDone.op = "applyFeedback"
  /\ \E m \in Memories, k \in Kernels :
       /\ 0 < UsesIn(heap["snapshot"])[m, k]
       /\ UsesIn(heap["snapshot"])[m, k] < UsesIn(StoredRatings("p1"))[m, k]

RatingKeyOf(position, kernel) ==
  makeRatingKey(memoryList[position].id, kernel.id)

\* C9: selectMemories leaves the ratings table it is given unchanged (a rating
\* missing for a candidate is initialised locally with mu = 0, sigma = 1 and is
\* not inserted), leaves the memories list unchanged and performs no storage
\* operation.
C9_SelectionReadsOnly ==
  [][ (~selected.called /\ selected'.called) =>
        /\ ratingsTable' = ratingsTable
        /\ memoryList' = memoryList
        /\ settings' = settings
        /\ storage' = storage
        /\ Len(selected'.rated) = Len(selected'.candidates)
        /\ \A i \in 1..Len(selected'.rated) :
             LET key == RatingKeyOf(selected'.candidates[i], selected'.kernel)
             IN IF MapHas(ratingsTable, key)
                THEN selected'.rated[i] = MapGet(ratingsTable, key)
                ELSE /\ selected'.rated[i].mu = 0
                     /\ selected'.rated[i].sigma = Scale
                     /\ ~MapHas(ratingsTable', key) ]_vars

\* a selection that returned memories from a table that rates one candidate
\* and does not rate another
C9_Witness ==
  /\ selected.called
  /\ Len(selected.result) > 0
  /\ \E i \in 1..Len(selected.candidates) :
       MapHas(ratingsTable, RatingKeyOf(selected.candidates[i], selected.kernel))
  /\ \E i \in 1..Len(selected.candidates) :
       ~MapHas(ratingsTable, RatingKeyOf(selected.candidates[i], selected.kernel))

TreatedAsEmpty(kinds) ==
  LET d == lastDone
      ratingsKey == RatingsKey(d.profileId)
      interactionsKey == InteractionsKey(d.profileId)
  IN /\ (d.op = "loadRatings" /\ ~d.readBack /\ d.outcome # "rejected"
           /\ settings[ratingsKey] \in kinds) =>
          d.outcome = "returned" /\ held.table = EmptyMap
     /\ (d.op = "loadInteractions" /\ d.outcome # "rejected"
           /\ settings[interactionsKey] \in kinds) =>
          d.outcome = "returned" /\ d.result = ArrayOf(<< >>)
     /\ (d.op \in {"applyFeedback", "recordUsage"} /\ d.outcome # "rejected"
           /\ ~WriterOn(d.profileId)) =>
          /\ d.preSettings[1] \in kinds =>
                /\ d.outcome = "returned"
                /\ settings[ratingsKey] \notin CorruptValues
                /\ \A m \in Memories, k \in Kernels :
                     UsesIn(StoredRatings(d.profileId))[m, k] =
                       IF k = d.kernelId THEN CountIn(d.rewards, m) ELSE 0
          /\ d.preSettings[2] \in kinds =>
                /\ d.outcome = "returned"
                /\ settings[interactionsKey] \notin CorruptValues
                /\ Len(StoredInteractions(d.profileId)) = Len(d.rewards)
                /\ \A i \in 1..Len(d.rewards) :
                     LET x == StoredInteractions(d.profileId)[i]
                     IN /\ x.memoryId = d.rewards[i].memoryId
                        /\ x.reward = d.rewards[i].reward
                        /\ x.kernelId = d.kernelId
                        /\ x.contextId = d.contextId

\* C11: when the value stored for a profile's ratings or interactions is
\* corrupt, loadRatings returns an empty table and loadInteractions an empty
\* list without raising, and a following applyFeedback completes and stores
\* exactly the ratings and interactions of that call.
C11_CorruptTreatedAsEmpty == TreatedAsEmpty(CorruptValues)

\* C12: while no storage adapter is injected, loadRatings, saveRatings,
\* loadInteractions, applyFeedback and recordUsage fail with an error given to
\* the caller, no call becomes pending and nothing is written, and
\* selectMemories called with an empty ratings table completes and returns
\* its results.
C12_UnavailableSurfacedSelectionRuns ==
  [][storage = Null =>
       /\ pc' = pc
       /\ settings' = settings
       /\ lastDone' # lastDone =>
            /\ lastDone'.outcome = "rejected"
            /\ lastDone'.op \in {"loadRatings", "saveRatings", "loadInteractions",
                                 "applyFeedback", "recordUsage"}
       /\ (~selected.called /\ selected'.called /\ ratingsTable = EmptyMap) =>
            /\ Len(selected'.result) =
                 Min(selected'.limit \div Scale, Len(selected'.candidates))
            /\ Len(selected'.candidates) > 0 => Len(selected'.result) > 0]_vars

\* applyFeedback was rejected and selectMemories returned memories, both
\* while no adapter is injected
C12_Witness ==
  /\ storage = Null
  /\ lastDone.op = "applyFeedback"
  /\ lastDone.outcome = "rejected"
  /\ settings = [k \in SettingKeys |-> Undefined]
  /\ selected.called
  /\ ratingsTable = EmptyMap
  /\ Len(selected.result) = 3

\* a kernel with empty name, prompt and keywords
EmptyKernel(kernel) ==
  kernel.name = << >> /\ kernel.prompt = << >> /\ kernel.keywords = << >>

\* no keyword of the kernel equals, ignoring case, a tag of a memory of the list
NoMatchingTags(memories, kernel) ==
  \A i \in 1..Len(memories) : ~TagOfKeywords(memories[i].tags, kernel.keywords)

\* C13: selectMemories returns an empty result, and does not raise, for an
\* empty memories list, for an empty kernel (empty name, prompt and keywords),
\* and, with bypassTagFilter false, for a kernel none of whose keywords
\* matches a tag of any memory.
C13_InvalidInputsGiveEmpty ==
  ( /\ selected.called
    /\ \/ Len(memoryList) = 0
       \/ EmptyKernel(selected.kernel)
       \/ /\ ~selected.options.bypassTagFilter
          /\ NoMatchingTags(memoryList, selected.kernel) ) =>
    selected.result = << >>

\* the items come from pairwise distinct positions of the input list
FromDistinctPositions(items, input) ==
  /\ \A i \in 1..Len(items) :
       items[i].pos \in 1..Len(input) /\ items[i] = input[items[i].pos]
  /\ \A i, j \in 1..Len(items) : i # j => items[i].pos # items[j].pos

\* every iteration so far moved one remaining candidate to the output, and a
\* selectByMMR call that has returned gives `returned` items
MMRCounts(returned) ==
  /\ Len(mmr.selected) = mmr.steps
  /\ Len(mmr.selected) + Len(mmr.remaining) = Len(mmr.candidates)
  /\ FromDistinctPositions(mmr.selected, mmr.candidates)
  /\ FromDistinctPositions(mmr.selected \o mmr.remaining, mmr.candidates)
  /\ mmr.steps > 0 =>
       /\ mmr.last.bestIdx \in 1..Len(mmr.last.remaining)
       /\ mmr.selected = Append(mmr.last.selected, mmr.last.remaining[mmr.last.bestIdx])
       /\ Len(mmr.remaining) = Len(mmr.last.remaining) - 1
  /\ mmr.returned => Len(mmr.selected) * Scale = returned

\* C14 as stated: for any candidates, lambda and limit >= 0, selectByMMR
\* returns exactly min(limit, |candidates|) items, each from a distinct
\* position of the input, and its loop removes exactly one remaining
\* candidate per iteration.
C14_AnyLimit ==
  mmr.limit >= 0 => MMRCounts(Min(mmr.limit, Len(mmr.candidates) * Scale))

\* C14, amended: the same for a limit that is a whole number >= 0.
C14_WholeLimit ==
  (mmr.limit >= 0 /\ mmr.limit % Scale = 0) =>
    MMRCounts(Min(mmr.limit, Len(mmr.candidates) * Scale))

\* selectByMMR returned 2 of 4 candidates, the second not the next by score
C14_Witness ==
  /\ mmr.returned
  /\ mmr.limit = 2000
  /\ Len(mmr.candidates) = 4
  /\ Len(mmr.selected) = 2
  /\ mmr.last.bestIdx > 1

\* lambda * score - (1 - lambda) * maxSim of a candidate, maxSim its largest
\* jaccardSimilarity to an item already selected, 0 when none is selected
MarginalRelevance(candidate, chosen, lambda) ==
  LET sims == {0} \cup {jaccardSimilarity(candidate.content, chosen[j].content) :
                          j \in 1..Len(chosen)}
      maxSim == CHOOSE x \in sims : \A y \in sims : y <= x
  IN lambda * candidate.score - (Scale - lambda) * maxSim

\* C15: at every step of selectByMMR the item moved to the output is a
\* remaining candidate that maximises lambda*score - (1-lambda)*maxSim; among
\* the candidates of maximal value the earliest in score-descending order is
\* taken, so the first item selected is a highest-scoring candidate.
C15_PicksEarliestMaximiser ==
  mmr.steps > 0 =>
    LET remaining == mmr.last.remaining
        value(i) == MarginalRelevance(remaining[i], mmr.last.selected, mmr.lambda)
        best == mmr.last.bestIdx
    IN /\ best \in 1..Len(remaining)
       /\ mmr.selected[Len(mmr.selected)] = remaining[best]
       /\ \A i \in 1..Len(remaining) : value(i) <= value(best)
       /\ \A i \in 1..(best - 1) : value(i) < value(best)
       /\ \A i \in 1..(Len(remaining) - 1) : remaining[i].score >= remaining[i + 1].score
       /\ \A i \in 1..Len(mmr.candidates) : mmr.candidates[i].score <= mmr.selected[1].score

\* a step with two candidates of maximal value, the earlier one taken, after
\* a step in which an item was selected
C15_Witness ==
  /\ mmr.steps = 2
  /\ LET remaining == mmr.last.remaining
         value(i) == MarginalRelevance(remaining[i], mmr.last.selected, mmr.lambda)
     IN \E i \in 1..Len(remaining) :
          i > mmr.last.bestIdx /\ value(i) = value(mmr.last.bestIdx)

\* C16: with lambda = 1, selectByMMR returns the first min(limit, |candidates|)
\* candidates in descending score order, candidates of equal score in their
\* input order, whatever their contents.
C16_LambdaOneIsScoreOrder ==
  (mmr.returned /\ mmr.lambda = Scale) =>
    /\ mmr.limit % Scale = 0 =>
         Len(mmr.selected) = Min(mmr.limit \div Scale, Len(mmr.candidates))
    /\ \A i \in 1..Len(mmr.selected) :
         \* the candidates ahead of selected[i] in descending score order,
         \* equal scores in input order, are the i - 1 selected before it
         Cardinality({ j \in 1..Len(mmr.candidates) :
                        \/ mmr.candidates[j].score > mmr.selected[i].score
                        \/ /\ mmr.candidates[j].score = mmr.selected[i].score
                           /\ j < mmr.selected[i].pos }) = i - 1

\* lambda = 1 returned two near-duplicates of equal highest score, in input
\* order, out of four candidates
C16_Witness ==
  /\ mmr.returned
  /\ mmr.lambda = Scale
  /\ Len(mmr.candidates) = 4
  /\ Len(mmr.selected) = 2
  /\ mmr.selected[1].score = mmr.selected[2].score
  /\ mmr.selected[1].pos < mmr.selected[2].pos
  /\ jaccardSimilarity(mmr.selected[1].content, mmr.selected[2].content) > 800

\* a pool of three near-duplicate candidates, limit 2 and lambda 0.7
NearPoolCall ==
  /\ mmr.candidates \in NearPools
  /\ mmr.limit = 2000
  /\ mmr.lambda = MMR_LAMBDA
  /\ mmr.returned

\* the Jaccard similarity of the two items returned
ReturnedSimilarity ==
  jaccardSimilarity(mmr.selected[1].content, mmr.selected[2].content)

\* C17 as stated: for a pool of three near-duplicates, limit 2 and lambda 0.7,
\* selectByMMR returns the pair of lowest pairwise Jaccard similarity among
\* all pairs of the pool, for every assignment of scores.
C17_LowestPairOfPool ==
  NearPoolCall =>
    \A i, j \in 1..3 :
      i # j => ReturnedSimilarity <= jaccardSimilarity(mmr.candidates[i].content,
                                                       mmr.candidates[j].content)

\* C17, amended: the first item returned is a highest-scoring candidate and
\* the second maximises 0.7*score - 0.3*similarity to the first; when the two
\* other candidates have equal scores the pair returned has the lowest
\* similarity among the pairs that contain the first item.
C17_GreedyPair ==
  NearPoolCall =>
    LET first == mmr.selected[1]
        second == mmr.selected[2]
        others == {i \in 1..3 : i # first.pos}
        value(i) == MarginalRelevance(mmr.candidates[i], <<first>>, MMR_LAMBDA)
    IN /\ Len(mmr.selected) = 2
       /\ \A i \in 1..3 : mmr.candidates[i].score <= first.score
       /\ second.pos \in others
       /\ \A i \in others : value(i) <= value(second.pos)
       /\ (\A i, j \in others : mmr.candidates[i].score = mmr.candidates[j].score) =>
            \A i \in others :
              ReturnedSimilarity <= jaccardSimilarity(first.content,
                                                      mmr.candidates[i].content)

\* the pair returned is not the least similar pair of the pool: the highest
\* score is on the candidate that is most similar to both others
C17_Witness ==
  /\ NearPoolCall
  /\ mmr.selected[1].pos = 1
  /\ ReturnedSimilarity > jaccardSimilarity(NearB, NearC)

\* every draw so far took one item out of the pool, at an index inside it, and
\* a weightedSample call that has returned made `draws` draws
SampleCounts(draws) ==
  /\ Len(sample.pool) = Len(sample.w)
  /\ Len(sample.result) = sample.draws
  /\ Len(sample.result) + Len(sample.pool) = Len(sample.items)
  /\ Distinct(sample.result \o sample.pool)
  /\ \A i \in 1..Len(sample.result) : sample.result[i] \in 1..Len(sample.items)
  /\ sample.draws > 0 =>
       /\ sample.last.idx \in 1..Len(sample.last.pool)
       /\ sample.result[sample.draws] = sample.last.pool[sample.last.idx]
       /\ Len(sample.pool) = Len(sample.last.pool) - 1
  /\ sample.returned => sample.draws * Scale = draws

RECURSIVE RunningSum(_, _)
RunningSum(w, i) == IF i = 0 THEN 0 ELSE RunningSum(w, i - 1) + Max(0, w[i])

\* C19: in every draw of weightedSample where the remaining pool has positive
\* total weight, for the random value u in [0, total) the item drawn is the
\* first one at which the running sum of max(0, w) exceeds u; hence an item
\* of zero or negative weight is never drawn while a remaining item has
\* positive weight.
C19_FirstExceedingRunningSum ==
  (sample.draws > 0 /\ RunningSum(sample.last.w, Len(sample.last.w)) > 0) =>
    LET w == sample.last.w
        \* u = Math.random() * total, in units of 1/Scale of a weight
        u == sample.last.u * RunningSum(w, Len(w))
        idx == sample.last.idx
    IN /\ Scale * RunningSum(w, idx) > u
       /\ \A j \in 1..(idx - 1) : Scale * RunningSum(w, j) <= u
       /\ w[idx] > 0

\* every weight is zero or negative
NoPositiveWeight(weights) == \A i \in 1..Len(weights) : weights[i] <= 0

\* the ordered arrangements of len distinct items out of n
Arrangements(n, len) ==
  {a \in [1..len -> 1..n] : \A i, j \in 1..len : i # j => a[i] # a[j]}

\* C20: when all weights are zero or negative, weightedSample draws without
\* replacement and every item of the pool can be drawn: every ordered
\* arrangement of min(k, |items|) distinct items is the result for some
\* values of Math.random(), and no other result is possible.
C20_ZeroWeightsAnyArrangement ==
  (NoPositiveWeight(sample.weights) /\ sample.k % Scale = 0) =>
    LET n == Len(sample.items)
        len == Min(Max(sample.k, 0) \div Scale, n)
    IN /\ sample.draws = 0 =>
            \A a \in Arrangements(n, len) :
              \E randoms \in [1..len -> Uniforms] :
                weightedSample(sample.items, sample.weights, sample.k, randoms) = a
       /\ sample.returned => sample.result \in Arrangements(n, len)

\* with weights 0 and negative, the third item was drawn before the first
C20_Witness ==
  /\ sample.returned
  /\ NoPositiveWeight(sample.weights)
  /\ \E i \in 1..Len(sample.weights) : sample.weights[i] < 0
  /\ sample.k = 2000
  /\ sample.result = <<3, 1>>

-----------------------------------------------------------------------------
(* selector.ts: the signals and the composite score of a returned memory *)

InUnitInterval(x) == 0 <= x /\ x <= Scale

\* C21: for every memory, kernel and rating, each signal emitted by
\* selectMemories (importance, tagRelevance, lexicalScore, recency, centrality
\* and the Thompson value) lies in [0, 1], and the composite score of every
\* returned memory lies in [0, 1].
C21_SignalsInUnitInterval ==
  selected.called =>
    \A i \in 1..Len(selected.result) :
      LET signals == selected.result[i].signals
      IN /\ InUnitInterval(signals.importance)
         /\ InUnitInterval(signals.tagRelevance)
         /\ InUnitInterval(signals.lexicalScore)
         /\ InUnitInterval(signals.recency)
         /\ InUnitInterval(signals.centrality)
         /\ InUnitInterval(signals.thompson)
         /\ InUnitInterval(selected.result[i].score)

-----------------------------------------------------------------------------
(* trueskill.ts: the mean after updateRating *)

\* |reward - mu|, in units of 1/Scale
DistanceToReward(mu, reward) == Abs(reward * Scale - mu)

\* the Kalman gain sigma^2 / (sigma^2 + 1) of a rating is strictly between 0 and 1
GainInside(r) ==
  /\ ~IsSpecial(r.sigma)
  /\ 0 < r.sigma * r.sigma
  /\ r.sigma * r.sigma < r.sigma * r.sigma + SIGMA_OBSERVATION * SIGMA_OBSERVATION

\* K * |reward - mu| is at least one unit of the fixed-point grid, so that the
\* move of mu is not lost to rounding
MoveVisible(r, reward) ==
  MulDiv(r.sigma * r.sigma, DistanceToReward(r.mu, reward),
         r.sigma * r.sigma + SIGMA_OBSERVATION * SIGMA_OBSERVATION) >= 1

\* C22: updateRating moves mu toward the reward without overshooting: the gain
\* K is strictly between 0 and 1, so mu' is strictly nearer to the reward than
\* mu whenever mu differs from the reward and never on its other side (with
\* reward = 0, |mu| decreases); and one reward = +1 update of a fresh rating
\* gives mu = 0.5 and uses = 1.
C22_MuMovesTowardReward ==
  updates > 0 =>
    /\ rating.mu # NaN
    /\ GainInside(prevRating)
    /\ DistanceToReward(rating.mu, lastReward) <= DistanceToReward(prevRating.mu, lastReward)
    /\ (rating.mu - lastReward * Scale) * (prevRating.mu - lastReward * Scale) >= 0
    /\ MoveVisible(prevRating, lastReward) =>
         DistanceToReward(rating.mu, lastReward) < DistanceToReward(prevRating.mu, lastReward)
    /\ (prevRating.mu = 0 /\ prevRating.sigma = Scale /\ prevRating.uses = 0
        /\ lastReward = 1) =>
         rating.mu = 500 /\ rating.uses = 1

-----------------------------------------------------------------------------
(* selector.ts: two calls with the same arguments and the same random draws *)

-----------------------------------------------------------------------------
(* selector.ts: the corpus statistics of a filtered selection *)

\* the memories of a list that have a tag matching a keyword of the kernel
MatchingMemories(memories, kernel) ==
  pick(memories, filterPositions(memories, kernel, 1))

\* two calls with the tag filter active whose memory lists differ only in
\* memories without a tag matching a kernel keyword
DifferOutsideFilter ==
  /\ repeated.called
  /\ repeated.draws = selected.draws
  /\ shouldFilterByTags(selected.kernel, optionsOf(selected.options).bypassTagFilter)
  /\ MatchingMemories(repeated.memories, selected.kernel)
       = MatchingMemories(selected.memories, selected.kernel)

\* C24: with the tag filter active, document frequencies, N and the average
\* document length are computed over the post-filter candidates only: adding
\* or removing memories that have no tag matching a kernel keyword changes
\* neither the scores nor the result of selectMemories, given the same random
\* draws.
C24_StatsOverCandidatesOnly ==
  DifferOutsideFilter => repeated.result = selected.result

\* a memory without a matching tag was added or removed between two calls that
\* returned a memory with a positive lexical score
C24_Witness ==
  /\ DifferOutsideFilter
  /\ repeated.memories # selected.memories
  /\ Len(repeated.result) >= 2
  /\ \E i \in 1..Len(repeated.result) : repeated.result[i].signals.lexicalScore > 0
  /\ \E i \in 1..Len(repeated.memories) :
       repeated.memories[i] \notin {selected.memories[j] : j \in 1..Len(selected.memories)}

-----------------------------------------------------------------------------
(* bm25.ts: the sign of a BM25 score *)

\* the tokens of the query that occur in the document
SharedTokens ==
  {bm25Call.queryTokens[i] : i \in 1..Len(bm25Call.queryTokens)}
    \cap {bm25Call.documentTokens[i] : i \in 1..Len(bm25Call.documentTokens)}

\* C25: with document frequencies built by buildDocumentFrequencies over a
\* candidate set that contains the document, calculateBM25 returns 0 when the
\* query tokens and the document tokens share no token, and a strictly
\* positive value when at least one query token occurs in the document.
C25_ZeroWithoutSharedTokenElsePositive ==
  bm25Call.called =>
    /\ SharedTokens = {} => bm25Call.result = 0
    /\ SharedTokens # {} => bm25Call.result > 0

\* a score for a query whose only token in the document is one that every
\* document of the set holds (df = N)
C25_Witness ==
  /\ bm25Call.called
  /\ bm25Call.totalDocuments >= 3
  /\ Len(bm25Call.queryTokens) >= 2
  /\ Cardinality(SharedTokens) = 1
  /\ \A t \in SharedTokens :
       MapGet(bm25Call.documentFrequencies, t) = bm25Call.totalDocuments

-----------------------------------------------------------------------------
(* tokenizer.ts: tokens of tokens *)

\* C26: tokenization is idempotent: for every text x, tokenizing the tokens
\* of x joined by single spaces gives the same token sequence as tokenize(x),
\* and every token of tokenize(x) has length >= 2, is not a stop word and
\* contains no whitespace or listed punctuation character.
C26_TokenizeIdempotent ==
  tokenCall.called =>
    /\ tokenCall.again = tokenCall.tokens
    /\ \A i \in 1..Len(tokenCall.tokens) :
         LET token == tokenCall.tokens[i]
         IN /\ Len(token) >= 2
            /\ token \notin STOP_WORDS
            /\ \A j \in 1..Len(token) : token[j] \notin Whitespace \cup PUNCTUATION

\* a text of a stop word written with an upper-case letter, a punctuation
\* character and a word that is kept
C26_Witness ==
  /\ tokenCall.called
  /\ Len(tokenCall.tokens) = 1
  /\ \E i \in 1..Len(tokenCall.text) : tokenCall.text[i] \in PUNCTUATION
  /\ LET pieces == split(replacePunctuation(tokenCall.text))
     IN \E i \in 1..Len(pieces) :
          /\ Len(pieces[i]) = 2
          /\ pieces[i] \notin STOP_WORDS
          /\ toLowerCase(pieces[i]) \in STOP_WORDS

-----------------------------------------------------------------------------
(* signals.ts: a storage operation that rejects *)

\* the latest completed call is a feedback call that rejected because a
\* storage operation failed, and no call that writes its profile has started
\* since
FeedbackFailed ==
  /\ lastDone.op \in {"applyFeedback", "recordUsage"}
  /\ lastDone.outcome = "failed"
  /\ ~WriterOn(lastDone.profileId)

\* C27: applyFeedback is all-or-nothing with respect to storage: if the call
\* rejects because a storage operation failed, neither the profile's stored
\* ratings nor its stored interactions differ from their values before the
\* call.
C27_FeedbackAllOrNothing ==
  FeedbackFailed =>
    /\ settings[RatingsKey(lastDone.profileId)] = lastDone.preSettings[1]
    /\ settings[InteractionsKey(lastDone.profileId)] = lastDone.preSettings[2]

-----------------------------------------------------------------------------
(* signals.ts: what applyFeedback leaves alone *)

\* the rating records written in a stored value
RatingsIn(stored) ==
  IF stored # Undefined /\ stored \notin CorruptValues
  THEN {stored.value[i] : i \in 1..Len(stored.value)}
  ELSE {}

\* the interaction records written in a stored value, in their order
InteractionsIn(stored) ==
  IF stored # Undefined /\ stored \notin CorruptValues THEN stored.value ELSE << >>

\* the latest completed call is a feedback call that returned, and no call
\* that writes its profile has started since
FeedbackReturned ==
  /\ lastDone.op = "applyFeedback"
  /\ lastDone.outcome = "returned"
  /\ ~WriterOn(lastDone.profileId)

\* the rating record belongs to a pair (memoryId, kernelId) named by the call
NamedIn(call, r) ==
  /\ r.kernelId = call.kernelId
  /\ \E i \in 1..Len(call.rewards) : call.rewards[i].memoryId = r.memoryId

\* the stored ratings of pairs the call does not name are those stored before
RatingsFrame ==
  LET old == RatingsIn(lastDone.preSettings[1])
      new == RatingsIn(settings[RatingsKey(lastDone.profileId)])
  IN /\ \A r \in old : ~NamedIn(lastDone, r) => r \in new
     /\ \A r \in new : ~NamedIn(lastDone, r) => r \in old

\* the stored interactions are those stored before, in their order, followed
\* by the new ones; beyond the cap the oldest are gone
InteractionsFrame ==
  LET old == InteractionsIn(lastDone.preSettings[2])
      new == InteractionsIn(settings[InteractionsKey(lastDone.profileId)])
      n == Len(lastDone.rewards)
      total == Len(old) + n
      kept == IF Len(new) > n THEN Len(new) - n ELSE 0
  IN /\ Len(new) = IF total > MAX_INTERACTIONS THEN MAX_INTERACTIONS ELSE total
     /\ \A i \in 1..kept : new[i] = old[Len(old) - kept + i]

\* a step that changes a stored value is a saveSetting of a pending call, on
\* the key of that call's own profile
WritesOwnKeys ==
  \A k \in SettingKeys :
    settings'[k] # settings[k] =>
      \E c \in Callers :
        /\ pc'[c] # pc[c]
        /\ \/ pc[c] = "putRatings" /\ k = RatingsKey(frame[c].profileId)
           \/ pc[c] = "putInteractions" /\ k = InteractionsKey(frame[c].profileId)

\* C28: applyFeedback changes only the stored ratings of the pairs (memoryId,
\* kernelId) named in rewards: every other stored rating of the profile is
\* written back unchanged, the interactions stored before the call remain in
\* the same order as a prefix of the new list (until the 1000-entry cap drops
\* the oldest), and no other profile's keys are written.
C28_FeedbackFrame ==
  /\ [](FeedbackReturned => RatingsFrame /\ InteractionsFrame)
  /\ [][WritesOwnKeys]_vars

\* a feedback call returned on a profile that held ratings of other pairs and
\* interactions of an earlier call: the ratings are still stored, the old
\* interactions come first
C28_Witness ==
  /\ FeedbackReturned
  /\ Len(lastDone.rewards) > 0
  /\ \E r \in RatingsIn(lastDone.preSettings[1]) :
       ~NamedIn(lastDone, r) /\ r \in RatingsIn(settings[RatingsKey(lastDone.profileId)])
  /\ Len(InteractionsIn(lastDone.preSettings[2])) > 0
  /\ Len(InteractionsIn(settings[InteractionsKey(lastDone.profileId)]))
       > Len(InteractionsIn(lastDone.preSettings[2]))

-----------------------------------------------------------------------------
(* trueskill.ts: the mean of a rating that started fresh *)

\* C29: starting from a fresh rating (mu = 0, sigma = 1), after any sequence
\* of updateRating calls with rewards in {-1, 0, 1}, mu stays within [-1, 1].
C29_MuWithinUnit ==
  /\ rating.mu # NaN
  /\ -Scale <= rating.mu
  /\ rating.mu <= Scale

\* five or more updates, the last one a reward +1 on a mean above zero: the
\* mean climbs toward 1 and stays below it
C29_Witness ==
  /\ updates >= 5
  /\ lastReward = 1
  /\ prevRating.mu > 0
  /\ rating.mu > prevRating.mu
  /\ rating.mu > Scale \div 2

-----------------------------------------------------------------------------
(* part_001: the depth of the continuation *)

\* number of recursive calls in progress below the host's call
Nesting == IF stack = << >> THEN 0 ELSE Len(stack) - 1

\* the host's call was made with a maxDepth that is a finite number
FiniteDepth == continuation.called /\ continuation.maxDepth # NaN

\* the least whole number >= d, and 0 for a negative d
WholeDepth(d) == IF d <= 0 THEN 0 ELSE (d + Scale - 1) \div Scale

\* a call the guards at the head of the function send back
SentBack(call) ==
  \/ ~call.reflectionResult.shouldContinue
  \/ call.reflectionResult.nextActions.kind # "array"
  \/ Len(call.reflectionResult.nextActions.items) = 0
  \/ call.maxDepth # NaN /\ call.maxDepth <= 0

\* such a call has made no apiCall and no executeAction and is not in its loop
SentBackCallsNothing ==
  \A j \in 1..Len(stack) :
    SentBack(stack[j]) => stack[j].calls = 0 /\ stack[j].pc = "entry"

\* each recursive call in progress was passed its caller's maxDepth - 1
PassesOneLess ==
  \A j \in 2..Len(stack) :
    IF stack[j - 1].maxDepth = NaN THEN stack[j].maxDepth = NaN
    ELSE stack[j].maxDepth = stack[j - 1].maxDepth - Scale

\* C30 (as stated): executeAutonomousContinuation called with maxDepth d never
\* nests its recursive calls more than d levels deep.
C30_NestingWithinMaxDepth ==
  (FiniteDepth /\ continuation.maxDepth >= 0) => Nesting * Scale <= continuation.maxDepth

\* C30 (for a finite maxDepth d): the recursive calls are never nested more
\* than ceil(max(d, 0)) levels deep; a call with maxDepth <= 0, with
\* shouldContinue false, or with an empty nextActions list performs no apiCall
\* and no executeAction; each recursive call passes maxDepth - 1; and the whole
\* continuation terminates when every apiCall, executeAction and
\* performPostReflection settles.
C30_NestingWithinWholeDepth ==
  /\ [](FiniteDepth => Nesting <= WholeDepth(continuation.maxDepth))
  /\ [](SentBackCallsNothing /\ PassesOneLess)
  /\ (FiniteDepth ~> continuation.outcome \in {"returned", "threw"})

\* a call with maxDepth 2 has nested two recursive calls, the caller of the
\* innermost one has made two calls of its own, and the innermost one, passed
\* maxDepth 0 with actions to run, is about to be sent back
C30_Witness ==
  /\ continuation.maxDepth = 2 * Scale
  /\ Len(stack) = 3
  /\ stack[2].calls = 2
  /\ stack[3].maxDepth = 0
  /\ stack[3].pc = "entry"
  /\ stack[3].reflectionResult.shouldContinue
  /\ stack[3].reflectionResult.nextActions.kind = "array"
  /\ Len(stack[3].reflectionResult.nextActions.items) = 2

====
